---- MODULE Spec2Model ----
(***************************************************************************)
(* A model of the two-pass assembler: the per-file driver (as_proc_file /  *)
(* scan_as_src_file), the first scan (as_1st_scan.c), the second scan      *)
(* (as_2nd_scan.c), the symbol table, the memory-word lists and the three  *)
(* output files.  A source file is a stream of characters; a character is  *)
(* a one-character string; a memory word is an integer, as the C "Word"    *)
(* (signed long) is.                                                       *)
(***************************************************************************)
EXTENDS Integers, Sequences, FiniteSets, TLC

VARIABLES
    file,        \* the characters of the .as source file (a stream)
    pc,          \* position of as_proc_file: "scan1","scan2","emit","clear","done";
                 \* of main: "main","open","exit" (and "killed": ended by a signal)
    fpos,        \* read position of source_file (index of the next character)
    line_num,    \* line_num of the running scan
    status,      \* status of scan_as_src_file ("ALL_GOOD" / "INP_ERROR")
    code_img,    \* the code image: sequence of words (size = Len)
    data_img,    \* the data image: sequence of words (size = Len)
    symb_table,  \* [0 .. SYMBT_HSIZE-1 -> sequence of Symbol], head of a list first
    ext_list,    \* the external symbols' addresses list, head first
    curr_word,   \* second scan: index of the current node of code_img (Len+1 = NULL)
    IC,          \* second scan: the instruction counter
    out,         \* the output files: [ob, ext, ent], each [exists, text]
    err_cnt,     \* number of assembly error messages printed (printerr, is_warning = FALSE)
    warn_cnt,    \* number of warning messages printed (printerr, is_warning = TRUE)
    err_cnt_1,   \* value of err_cnt when the first scan ended
    log,         \* history: one record for every line a scan has read (see LogRecord)
    argv,        \* main: the files named on the command line, [name, text, readable]
    argi,        \* main: index in argv of the file in process (0 before the first)
    curr_file_name, \* printerr: the static file name of the messages
    exit_code,   \* the value the process has returned, once pc = "exit"
    done_files,  \* history: [name, out, status] of the files as_proc_file has finished
    fault        \* history: the last technical failure that has occurred: "none",
                 \* "open", "close", "print", "alloc" (in a scan), "alloc_name"

(* the state of main and of its environment, which the scans do not touch *)
drv == <<argv, argi, exit_code, done_files, fault>>

vars == <<file, pc, fpos, line_num, status, code_img, data_img, symb_table,
          ext_list, curr_word, IC, out, err_cnt, warn_cnt, err_cnt_1, log,
          argv, argi, curr_file_name, exit_code, done_files, fault>>

----------------------------------------------------------------------------
(* Program constants *)

MAX_LINE_LEN == 80
INITIAL_LOAD_ADSS == 100
ADSS_DEC_LEN == 7
WORD_BIT_LEN == 24
MAX_SYMB_LEN == 31
SYMBT_HSIZE == 58
ARE_A_set == 4
ARE_R_set == 2
ARE_E_set == 1
imediate_a == 0
direct_a == 1
relative_a == 2
direct_reg_a == 3

(* Field masks, as the range of bits they cover: [lo, len] *)
ARE == [lo |-> 0, len |-> 3]
FUNCT == [lo |-> 3, len |-> 5]
DEST_REG == [lo |-> 8, len |-> 3]
DEST_ADSS == [lo |-> 11, len |-> 2]
SRC_REG == [lo |-> 13, len |-> 3]
SRC_ADSS == [lo |-> 16, len |-> 2]
OPCODE == [lo |-> 18, len |-> 6]
NON_ARE == [lo |-> 3, len |-> 21]
SRC_REG_SRC_ADSS == [lo |-> 13, len |-> 5]
ALL_OPND_FIELDS == [lo |-> 8, len |-> 10]

----------------------------------------------------------------------------
(* Characters *)

UpperChars == <<"A","B","C","D","E","F","G","H","I","J","K","L","M",
                "N","O","P","Q","R","S","T","U","V","W","X","Y","Z">>
LowerChars == <<"a","b","c","d","e","f","g","h","i","j","k","l","m",
                "n","o","p","q","r","s","t","u","v","w","x","y","z">>
DigitChars == <<"0","1","2","3","4","5","6","7","8","9">>
PunctChars == <<" ","!","\"","#","$","%","&","'","(",")","*","+",",","-",".","/">>
Punct2Chars == <<":",";","<","=",">","?","@">>

Range(s) == {s[i] : i \in 1..Len(s)}

UpperSet == Range(UpperChars)
LowerSet == Range(LowerChars)
DigitSet == Range(DigitChars)
PunctSet == Range(PunctChars) \cup Range(Punct2Chars)
SpaceSet == {" ", "\t", "\n", "\r"}

isupper(c) == c \in UpperSet
islower(c) == c \in LowerSet
isalpha(c) == isupper(c) \/ islower(c)
isdigit(c) == c \in DigitSet
isalnum(c) == isalpha(c) \/ isdigit(c)
isspace(c) == c \in SpaceSet
isprint(c) == isalnum(c) \/ c \in PunctSet

(* The ASCII value of a character *)
AsciiFrom(s, first) == [c \in Range(s) |-> first - 1 + CHOOSE i \in 1..Len(s) : s[i] = c]

AsciiTable ==
    AsciiFrom(UpperChars, 65) @@ AsciiFrom(LowerChars, 97) @@ AsciiFrom(DigitChars, 48)
    @@ AsciiFrom(PunctChars, 32) @@ AsciiFrom(Punct2Chars, 58)
    @@ AsciiFrom(<<"\t", "\n">>, 9) @@ AsciiFrom(<<"\r">>, 13)

CharCode(c) == AsciiTable[c]

Pow2(n) == 2 ^ n

(* A local variable of a C function: Local([v \in {x} |-> e]) is e with v
   standing for the value x, computed once. *)
Local(f) == f[CHOOSE v \in DOMAIN f : TRUE]

(* The C remainder: the sign of the result is the sign of the dividend *)
CRem(a, b) == IF a >= 0 THEN a % b ELSE -((-a) % b)

----------------------------------------------------------------------------
(* as_mem_words.h: word fields and numeric conversions *)

set_word_field(field_mask, mem_word, set_val, st_bit) ==
    LET lo      == field_mask.lo
        width   == Pow2(field_mask.len)
        cleared == mem_word - ((mem_word \div Pow2(lo)) % width) * Pow2(lo)
        shifted == set_val * Pow2(st_bit)
    IN  cleared + ((shifted \div Pow2(lo)) % width) * Pow2(lo)

(* a faulty long_to_s21b, dropping the sign *)
long_to_s21b_abs(num) == IF num < 0 THEN (-num) % 1048576 ELSE num % 1048576

long_to_s21b(num) == CRem(num, 1048576)

long_to_s24b(num) == CRem(num, 8388608)

char_to_word(ch) == CharCode(ch)

(* as_core_design.h: the address a symbol represents.  A replacement word is
   built by set_word_field from 0, so it is never negative and the cast to
   unsigned long changes nothing. *)
get_symb_adss(symbol) == symbol.rep_word \div 8

(* as_core_design.h: reg_check - the register's index, or -1 *)
reg_check(str) ==
    IF Len(str) = 2 /\ str[1] = "r" /\ str[2] \in {"0","1","2","3","4","5","6","7"}
    THEN CharCode(str[2]) - CharCode("0")
    ELSE -1

----------------------------------------------------------------------------
(* as_core_design.c *)

inst_table == <<
    [op_name |-> <<"m","o","v">>, op_code |-> 0, funct |-> 0, opnd_num |-> 2,
     src |-> {imediate_a, direct_a, direct_reg_a}, des |-> {direct_a, direct_reg_a}],
    [op_name |-> <<"c","m","p">>, op_code |-> 1, funct |-> 0, opnd_num |-> 2,
     src |-> {imediate_a, direct_a, direct_reg_a}, des |-> {imediate_a, direct_a, direct_reg_a}],
    [op_name |-> <<"a","d","d">>, op_code |-> 2, funct |-> 1, opnd_num |-> 2,
     src |-> {imediate_a, direct_a, direct_reg_a}, des |-> {direct_a, direct_reg_a}],
    [op_name |-> <<"s","u","b">>, op_code |-> 2, funct |-> 2, opnd_num |-> 2,
     src |-> {imediate_a, direct_a, direct_reg_a}, des |-> {direct_a, direct_reg_a}],
    [op_name |-> <<"l","e","a">>, op_code |-> 4, funct |-> 0, opnd_num |-> 2,
     src |-> {direct_a}, des |-> {direct_a, direct_reg_a}],
    [op_name |-> <<"c","l","r">>, op_code |-> 5, funct |-> 1, opnd_num |-> 1,
     src |-> {}, des |-> {direct_a, direct_reg_a}],
    [op_name |-> <<"n","o","t">>, op_code |-> 5, funct |-> 2, opnd_num |-> 1,
     src |-> {}, des |-> {direct_a, direct_reg_a}],
    [op_name |-> <<"i","n","c">>, op_code |-> 5, funct |-> 3, opnd_num |-> 1,
     src |-> {}, des |-> {direct_a, direct_reg_a}],
    [op_name |-> <<"d","e","c">>, op_code |-> 5, funct |-> 4, opnd_num |-> 1,
     src |-> {}, des |-> {direct_a, direct_reg_a}],
    [op_name |-> <<"j","m","p">>, op_code |-> 9, funct |-> 1, opnd_num |-> 1,
     src |-> {}, des |-> {direct_a, relative_a}],
    [op_name |-> <<"b","n","e">>, op_code |-> 9, funct |-> 2, opnd_num |-> 1,
     src |-> {}, des |-> {direct_a, relative_a}],
    [op_name |-> <<"j","s","r">>, op_code |-> 9, funct |-> 3, opnd_num |-> 1,
     src |-> {}, des |-> {direct_a, relative_a}],
    [op_name |-> <<"r","e","d">>, op_code |-> 12, funct |-> 0, opnd_num |-> 1,
     src |-> {}, des |-> {direct_a, direct_reg_a}],
    [op_name |-> <<"p","r","n">>, op_code |-> 13, funct |-> 0, opnd_num |-> 1,
     src |-> {}, des |-> {imediate_a, direct_a, direct_reg_a}],
    [op_name |-> <<"r","t","s">>, op_code |-> 14, funct |-> 0, opnd_num |-> 0,
     src |-> {}, des |-> {}],
    [op_name |-> <<"s","t","o","p">>, op_code |-> 15, funct |-> 0, opnd_num |-> 0,
     src |-> {}, des |-> {}] >>

(* find_ass_inst: the index of the instruction in inst_table, 0 for NULL *)
find_ass_inst(str) ==
    IF \E i \in 1..Len(inst_table) : inst_table[i].op_name = str
    THEN CHOOSE i \in 1..Len(inst_table) : inst_table[i].op_name = str
    ELSE 0

(* guide_check: "g_data" / "g_string" / "g_entry" / "g_extern", or "none" for -1 *)
guide_check(str) ==
    IF str = <<"d","a","t","a">> THEN "g_data"
    ELSE IF str = <<"s","t","r","i","n","g">> THEN "g_string"
    ELSE IF str = <<"e","n","t","r","y">> THEN "g_entry"
    ELSE IF str = <<"e","x","t","e","r","n">> THEN "g_extern"
    ELSE "none"

is_reserved(str) == find_ass_inst(str) # 0 \/ guide_check(str) # "none" \/ reg_check(str) # -1

(* the loop of is_legal_symb: the first index i >= 1 (0-based) at which it stops,
   or -1 if it met a character that is no letter and no digit *)
RECURSIVE legal_symb_scan(_, _)
legal_symb_scan(str, i) ==
    IF i < Len(str) /\ i < MAX_SYMB_LEN
    THEN IF ~isalnum(str[i + 1]) THEN -1 ELSE legal_symb_scan(str, i + 1)
    ELSE i

(* a faulty is_legal_symb, with no limit on the length of the name *)
is_legal_symb_long(str) ==
    IF Len(str) = 0 THEN "STR_EMPTY"
    ELSE IF ~isalpha(str[1]) THEN "ALPHA_EXP"
    ELSE IF is_reserved(str) THEN "DUP_ERR"
    ELSE IF \E i \in 2..Len(str) : ~isalnum(str[i]) THEN "ALNUM_EXP"
    ELSE "VALID"

is_legal_symb(str) ==
    IF Len(str) = 0 THEN "STR_EMPTY"
    ELSE IF ~isalpha(str[1]) THEN "ALPHA_EXP"
    ELSE IF is_reserved(str) THEN "DUP_ERR"
    ELSE Local([i \in {legal_symb_scan(str, 1)} |->
             IF i = -1 THEN "ALNUM_EXP"
             ELSE IF i = Len(str) THEN "VALID"
             ELSE "STR_TOO_LONG"])

(* str_check: [st, str].  non_white_i and non_pnt_i are 0-based indices into
   the text that follows the first double quote, -1 when there is none. *)
str_skip_white(input) ==
    LET S == {i \in 1..Len(input) : ~isspace(input[i])}
    IN  IF S = {} THEN Len(input) + 1 ELSE CHOOSE i \in S : \A j \in S : i <= j

str_check(input) ==
    Local([p \in {str_skip_white(input)} |->
        IF p > Len(input) THEN [st |-> "STR_EMPTY", str |-> <<>>]
        ELSE IF input[p] # "\"" THEN [st |-> "PRFX_EXP", str |-> <<>>]
        ELSE LET str_out == SubSeq(input, p + 1, Len(input))
                 NW == {i \in 1..Len(str_out) : ~isspace(str_out[i])}
                 NP == {i \in 1..Len(str_out) : ~isprint(str_out[i])}
                 non_white_i == IF NW = {} THEN -1
                                ELSE (CHOOSE i \in NW : \A j \in NW : j <= i) - 1
                 non_pnt_i == IF NP = {} THEN -1
                              ELSE (CHOOSE i \in NP : \A j \in NP : i <= j) - 1
             IN  IF non_white_i = -1 \/ str_out[non_white_i + 1] # "\""
                 THEN [st |-> "SFX_EXP", str |-> str_out]
                 ELSE IF non_pnt_i # -1 /\ non_pnt_i < non_white_i
                 THEN [st |-> "INVALID_CHR", str |-> str_out]
                 ELSE [st |-> "VALID", str |-> SubSeq(str_out, 1, non_white_i)]])

----------------------------------------------------------------------------
(* as_mem_words.c: number translation *)

RECURSIVE str_to_long_digits(_, _, _)
str_to_long_digits(str, i, result) ==
    IF i > Len(str) THEN [st |-> "ALL_GOOD", val |-> result]
    ELSE IF ~isdigit(str[i]) THEN [st |-> "INT_EXP", val |-> 0]
    ELSE str_to_long_digits(str, i + 1, result * 10 + CharCode(str[i]) - CharCode("0"))

(* str_to_long: [st, val] *)
str_to_long(str) ==
    IF Len(str) = 0 THEN [st |-> "STR_EMPTY", val |-> 0]
    ELSE IF str[1] = "-"
    THEN IF Len(str) = 1 THEN [st |-> "INT_EXP", val |-> 0]
         ELSE Local([r \in {str_to_long_digits(str, 2, 0)} |->
                  [st |-> r.st, val |-> -r.val]])
    ELSE IF str[1] = "+"
    THEN IF Len(str) = 1 THEN [st |-> "INT_EXP", val |-> 0]
         ELSE str_to_long_digits(str, 2, 0)
    ELSE str_to_long_digits(str, 1, 0)

----------------------------------------------------------------------------
(* assembler_io.c: input reading *)

(* the do-while loop of get_line; the character at p has just been read.
   [last: index of the last character stored, pos: next read position, limit] *)
RECURSIVE get_line_loop(_, _, _)
get_line_loop(stream, p, limit) ==
    IF limit - 1 > 0 /\ p + 1 <= Len(stream) /\ stream[p + 1] # "\n"
    THEN get_line_loop(stream, p + 1, limit - 1)
    ELSE [last |-> p, limit |-> limit - 1,
          pos |-> IF limit - 1 > 0 /\ p + 1 <= Len(stream) THEN p + 2 ELSE p + 1]

(* the loop that discards the rest of a too long line: the next read position *)
RECURSIVE get_line_discard(_, _)
get_line_discard(stream, p) ==
    IF p > Len(stream) THEN p
    ELSE IF stream[p] = "\n" THEN p + 1
    ELSE get_line_discard(stream, p + 1)

(* a faulty get_line, leaving the rest of a too long line to the next read *)
get_line_keep(stream, pos) ==
    IF pos > Len(stream) THEN [st |-> "EOF_ENC", line |-> <<>>, pos |-> pos]
    ELSE IF stream[pos] = "\n" THEN [st |-> "ALL_GOOD", line |-> <<>>, pos |-> pos + 1]
    ELSE Local([r \in {get_line_loop(stream, pos, MAX_LINE_LEN)} |->
             IF r.limit <= 0 /\ r.pos <= Len(stream) /\ stream[r.pos] # "\n"
             THEN [st |-> "STR_TOO_LONG", line |-> SubSeq(stream, pos, r.last),
                   pos |-> r.pos + 1]
             ELSE [st |-> "ALL_GOOD", line |-> SubSeq(stream, pos, r.last),
                   pos |-> IF r.limit <= 0 /\ r.pos <= Len(stream) THEN r.pos + 1 ELSE r.pos]])

(* get_line: [st, line, pos] *)
get_line(stream, pos) ==
    IF pos > Len(stream) THEN [st |-> "EOF_ENC", line |-> <<>>, pos |-> pos]
    ELSE IF stream[pos] = "\n" THEN [st |-> "ALL_GOOD", line |-> <<>>, pos |-> pos + 1]
    ELSE Local([r \in {get_line_loop(stream, pos, MAX_LINE_LEN)} |->
         Local([line \in {SubSeq(stream, pos, r.last)} |->
             IF r.limit <= 0 /\ r.pos <= Len(stream) /\ stream[r.pos] # "\n"
             THEN [st |-> "STR_TOO_LONG", line |-> line,
                   pos |-> get_line_discard(stream, r.pos + 1)]
             ELSE [st |-> "ALL_GOOD", line |-> line,
                   pos |-> IF r.limit <= 0 /\ r.pos <= Len(stream) THEN r.pos + 1 ELSE r.pos]])])

RECURSIVE get_token_white(_, _)
get_token_white(input, p) ==
    IF p <= Len(input) /\ isspace(input[p]) THEN get_token_white(input, p + 1) ELSE p

RECURSIVE get_token_end(_, _, _)
get_token_end(input, p, limit) ==
    IF limit > 0 /\ p <= Len(input) /\ input[p] # "," /\ ~isspace(input[p])
    THEN get_token_end(input, p + 1, limit - 1)
    ELSE p

(* get_token: [word, pos]; the length returned by the C function is Len(word) *)
get_token(input, pos) ==
    Local([p \in {get_token_white(input, pos)} |->
        IF p > Len(input) THEN [word |-> <<>>, pos |-> p]
        ELSE IF input[p] = "," THEN [word |-> <<",">>, pos |-> p + 1]
        ELSE Local([e \in {get_token_end(input, p, MAX_LINE_LEN)} |->
                 [word |-> SubSeq(input, p, e - 1), pos |-> e]])])

(* symb_check: [st, errs] - errs is the number of error messages printed *)
symb_check(symb_name) ==
    IF is_legal_symb(symb_name) = "VALID" THEN [st |-> "ALL_GOOD", errs |-> 0]
    ELSE [st |-> "INP_ERROR", errs |-> 1]

(* comma_check: [st, pos, errs]; a message argument is TRUE when it is not NULL *)
comma_check(line, pos, non_comma_msg, line_end_msg) ==
    Local([t \in {get_token(line, pos)} |->
        IF Len(t.word) = 0
        THEN [st |-> "END_OF_LINE", pos |-> t.pos, errs |-> IF line_end_msg THEN 1 ELSE 0]
        ELSE IF t.word # <<",">>
        THEN [st |-> "INP_ERROR", pos |-> t.pos, errs |-> IF non_comma_msg THEN 1 ELSE 0]
        ELSE [st |-> "ALL_GOOD", pos |-> t.pos, errs |-> 0]])

(* line_end_check: [st, pos, errs] *)
line_end_check(line, pos) ==
    Local([t \in {get_token(line, pos)} |->
        IF Len(t.word) # 0 THEN [st |-> "INP_ERROR", pos |-> t.pos, errs |-> 1]
        ELSE [st |-> "ALL_GOOD", pos |-> t.pos, errs |-> 0]])

(* get_data_word: [st, pos, res, errs] *)
get_data_word(line, pos) ==
    Local([t \in {get_token(line, pos)} |->
        IF Len(t.word) = 0 THEN [st |-> "INP_ERROR", pos |-> t.pos, res |-> 0, errs |-> 1]
        ELSE IF t.word = <<",">> THEN [st |-> "INP_ERROR", pos |-> t.pos, res |-> 0, errs |-> 1]
        ELSE Local([n \in {str_to_long(t.word)} |->
                 IF n.st = "INT_EXP"
                 THEN [st |-> "INP_ERROR", pos |-> t.pos, res |-> 0, errs |-> 1]
                 ELSE [st |-> "ALL_GOOD", pos |-> t.pos, res |-> long_to_s24b(n.val),
                       errs |-> 0]])])

(* get_char_string: [st, str, errs] *)
get_char_string(line) ==
    Local([r \in {str_check(line)} |->
        IF r.st = "VALID" THEN [st |-> "ALL_GOOD", str |-> r.str, errs |-> 0]
        ELSE [st |-> "INP_ERROR", str |-> r.str, errs |-> 1]])

----------------------------------------------------------------------------
(* Pointers that may be NULL (code_img_ptr, data_img_ptr, ext_list_ptr) *)

NULL == [nul |-> TRUE, val |-> <<>>]
PtrTo(x) == [nul |-> FALSE, val |-> x]

----------------------------------------------------------------------------
(* as_mem_words.c: the lists *)

word_list_add(mem_word, list) == Append(list, mem_word)

(* a faulty ext_list_add, recording the address of the word before the operand's *)
ext_list_add_prev(new_name, new_adss, list) ==
    <<[name |-> new_name, adss |-> new_adss - 1]>> \o list

ext_list_add(new_name, new_adss, list) == <<[name |-> new_name, adss |-> new_adss]>> \o list

----------------------------------------------------------------------------
(* as_symb_table.c *)

(* symb_hash works on an unsigned (32 bits); the value is kept here as two
   16-bit halves [hi, lo] so that the wrap-around is the one of the C code *)
RECURSIVE symb_hash_loop(_, _, _)
symb_hash_loop(str, i, hashval) ==
    IF i > Len(str) THEN hashval
    ELSE Local([lo \in {CharCode(str[i]) + 31 * hashval.lo} |->
         Local([hi \in {31 * hashval.hi + (lo \div 65536)} |->
             symb_hash_loop(str, i + 1, [hi |-> hi % 65536, lo |-> lo % 65536])])])

symb_hash(str) ==
    Local([hashval \in {symb_hash_loop(str, 1, [hi |-> 0, lo |-> 0])} |->
        ((hashval.hi % SYMBT_HSIZE) * (65536 % SYMBT_HSIZE) + hashval.lo) % SYMBT_HSIZE])

intlz_symbt == [i \in 0..(SYMBT_HSIZE - 1) |-> <<>>]

(* symb_lookup: the position [h, i] of the symbol in the table, i = 0 for NULL *)
symb_lookup(table, str) ==
    Local([h \in {symb_hash(str)} |->
    Local([S \in {{i \in 1..Len(table[h]) : table[h][i].name = str}} |->
        IF S = {} THEN [h |-> h, i |-> 0]
        ELSE [h |-> h, i |-> CHOOSE i \in S : \A j \in S : i <= j]])])

SymbAt(table, where) == table[where.h][where.i]

(* a faulty symb_inst, installing the symbol without looking the name up *)
symb_inst_shadow(table, name, rep_word, is_extern, is_entry, is_data) ==
    [st |-> "ALL_GOOD",
     table |-> [table EXCEPT ![symb_hash(name)] =
                   <<[name |-> name, rep_word |-> rep_word, is_extern |-> is_extern,
                      is_entry |-> is_entry, is_data |-> is_data]>> \o table[symb_hash(name)]]]

(* symb_inst: [st, table] *)
symb_inst(table, name, rep_word, is_extern, is_entry, is_data) ==
    IF symb_lookup(table, name).i # 0 THEN [st |-> "DUP_ERR", table |-> table]
    ELSE Local([hash_val \in {symb_hash(name)} |->
         Local([new_node \in {[name |-> name, rep_word |-> rep_word, is_extern |-> is_extern,
                               is_entry |-> is_entry, is_data |-> is_data]} |->
             [st |-> "ALL_GOOD",
              table |-> [table EXCEPT ![hash_val] = <<new_node>> \o table[hash_val]]]])])

(* a faulty inc_data step, shifting every symbol *)
inc_data_symb_all(symb, inc_val) ==
    [symb EXCEPT !.rep_word =
        set_word_field(NON_ARE, symb.rep_word, get_symb_adss(symb) + inc_val, 3)]

inc_data_symb(symb, inc_val) ==
    IF symb.is_data
    THEN [symb EXCEPT !.rep_word =
              set_word_field(NON_ARE, symb.rep_word, get_symb_adss(symb) + inc_val, 3)]
    ELSE symb

inc_data(table, inc_val) ==
    [i \in 0..(SYMBT_HSIZE - 1) |->
        [k \in 1..Len(table[i]) |-> inc_data_symb(table[i][k], inc_val)]]

clear_symb_table == intlz_symbt

(* every symbol of the table, in the order in which the loops of inc_data and
   form_ent_file visit them: list 0 first, each list from its head *)
RECURSIVE TableScan(_, _)
TableScan(table, i) ==
    IF i >= SYMBT_HSIZE THEN <<>> ELSE table[i] \o TableScan(table, i + 1)

----------------------------------------------------------------------------
(* as_1st_scan.c *)

NoOperand == [adss_method |-> imediate_a, mem_word |-> 0, reg_index |-> 0, symb |-> <<>>]

(* get_imed_opnd: [st, opnd, errs].  The Operand is a local variable that was
   never initialised: the bits of its mem_word above the 24 that set_word_field
   writes keep whatever was there (junk, a multiple of 2^24). *)
get_imed_opnd(num_str, junk) ==
    Local([r \in {str_to_long(num_str)} |->
        IF r.st = "STR_EMPTY" \/ r.st = "INT_EXP"
        THEN [st |-> "INP_ERROR", opnd |-> NoOperand, errs |-> 1]
        ELSE [st |-> "ALL_GOOD",
              opnd |-> [NoOperand EXCEPT
                  !.adss_method = imediate_a,
                  !.mem_word = set_word_field(ARE,
                                  set_word_field(NON_ARE, junk, long_to_s21b(r.val), 3),
                                  ARE_A_set, 0)],
              errs |-> 0]])

(* new_symb_add_1: [st, table, errs] *)
new_symb_add_1(table, name, rep_adss, is_extern, is_data) ==
    IF symb_check(name).st = "INP_ERROR"
    THEN [st |-> "INP_ERROR", table |-> table, errs |-> 1]
    ELSE Local([rep_word \in {set_word_field(NON_ARE,
                                  set_word_field(ARE, 0,
                                      IF is_extern THEN ARE_E_set ELSE ARE_R_set, 0),
                                  rep_adss, 3)} |->
         Local([r \in {symb_inst(table, name, rep_word, is_extern, FALSE, is_data)} |->
             IF r.st = "DUP_ERR"
             THEN [st |-> "INP_ERROR", table |-> table, errs |-> 1]
             ELSE [st |-> "ALL_GOOD", table |-> r.table, errs |-> 0]])])

(* get_opnd_1: [st, opnd, pos, errs] *)
get_opnd_1(line, pos, junk) ==
    Local([t \in {get_token(line, pos)} |->
    Local([token \in {t.word} |->
        IF Len(token) = 0
        THEN [st |-> "INP_ERROR", opnd |-> NoOperand, pos |-> t.pos, errs |-> 1]
        ELSE IF token = <<",">>
        THEN [st |-> "INP_ERROR", opnd |-> NoOperand, pos |-> t.pos, errs |-> 1]
        ELSE IF token[1] = "#"
        THEN Local([r \in {get_imed_opnd(Tail(token), junk)} |->
                 [st |-> r.st, opnd |-> r.opnd, pos |-> t.pos, errs |-> r.errs]])
        ELSE IF reg_check(token) # -1
        THEN [st |-> "ALL_GOOD",
              opnd |-> [NoOperand EXCEPT !.adss_method = direct_reg_a,
                                         !.reg_index = reg_check(token)],
              pos |-> t.pos, errs |-> 0]
        ELSE IF token[1] = "&"
        THEN Local([r \in {symb_check(Tail(token))} |->
                 [st |-> r.st, opnd |-> [NoOperand EXCEPT !.adss_method = relative_a],
                  pos |-> t.pos, errs |-> r.errs]])
        ELSE Local([r \in {symb_check(token)} |->
                 [st |-> r.st, opnd |-> [NoOperand EXCEPT !.adss_method = direct_a],
                  pos |-> t.pos, errs |-> r.errs]])])])

(* a faulty inst_opnd_match, matching every addressing method *)
inst_opnd_match_any(inst, opnd, is_source) == [st |-> "ALL_GOOD", errs |-> 0]

(* inst_opnd_match: [st, errs]; inst is an index of inst_table *)
inst_opnd_match(inst, opnd, is_source) ==
    IF is_source
    THEN IF opnd.adss_method \notin inst_table[inst].src
         THEN [st |-> "INP_ERROR", errs |-> 1] ELSE [st |-> "ALL_GOOD", errs |-> 0]
    ELSE IF opnd.adss_method \notin inst_table[inst].des
         THEN [st |-> "INP_ERROR", errs |-> 1] ELSE [st |-> "ALL_GOOD", errs |-> 0]

OpndsResult(st, src, des, errs) == [st |-> st, src_opnd |-> src, des_opnd |-> des, errs |-> errs]

(* the tail of case 1 and case 2 of get_inst_opnds_1: the destination operand,
   its match with the instruction, and the end of the line *)
get_inst_des_1(line, pos, inst, src_opnd, junk) ==
    Local([d \in {get_opnd_1(line, pos, junk)} |->
        IF d.st # "ALL_GOOD" THEN OpndsResult("INP_ERROR", src_opnd, d.opnd, d.errs)
        ELSE Local([m \in {inst_opnd_match(inst, d.opnd, FALSE)} |->
                 IF m.st # "ALL_GOOD" THEN OpndsResult("INP_ERROR", src_opnd, d.opnd, m.errs)
                 ELSE Local([e \in {line_end_check(line, d.pos)} |->
                          OpndsResult(IF e.st = "ALL_GOOD" THEN "ALL_GOOD" ELSE "INP_ERROR",
                                      src_opnd, d.opnd, e.errs)])])])

(* get_inst_opnds_1: [st, src_opnd, des_opnd, errs] *)
get_inst_opnds_1(line, pos, inst, junk) ==
    IF inst_table[inst].opnd_num = 0
    THEN Local([e \in {line_end_check(line, pos)} |->
             OpndsResult(e.st, NoOperand, NoOperand, e.errs)])
    ELSE IF inst_table[inst].opnd_num = 1
    THEN get_inst_des_1(line, pos, inst, NoOperand, junk)
    ELSE Local([s \in {get_opnd_1(line, pos, junk)} |->
             IF s.st # "ALL_GOOD" THEN OpndsResult("INP_ERROR", s.opnd, NoOperand, s.errs)
             ELSE Local([m \in {inst_opnd_match(inst, s.opnd, TRUE)} |->
                      IF m.st # "ALL_GOOD"
                      THEN OpndsResult("INP_ERROR", s.opnd, NoOperand, m.errs)
                      ELSE Local([c \in {comma_check(line, s.pos, TRUE, TRUE)} |->
                               IF c.st # "ALL_GOOD"
                               THEN OpndsResult("INP_ERROR", s.opnd, NoOperand, c.errs)
                               ELSE get_inst_des_1(line, c.pos, inst, s.opnd, junk)])])])

(* a faulty creat_inst_word, writing the index of the source register into the
   field of the destination register too *)
creat_inst_word_src(inst, src_opnd, des_opnd) ==
    set_word_field(DEST_REG,
        set_word_field(SRC_REG,
            set_word_field(SRC_ADSS,
                set_word_field(DEST_ADSS,
                    set_word_field(OPCODE,
                        set_word_field(FUNCT, set_word_field(ARE, 0, ARE_A_set, 0),
                                       inst_table[inst].funct, 3),
                        inst_table[inst].op_code, 18),
                    IF inst_table[inst].opnd_num > 0 THEN des_opnd.adss_method ELSE 0, 11),
                IF inst_table[inst].opnd_num > 1 THEN src_opnd.adss_method ELSE 0, 16),
            src_opnd.reg_index, 13),
        src_opnd.reg_index, 8)

creat_inst_word(inst, src_opnd, des_opnd) ==
    Local([w0 \in {set_word_field(ARE, 0, ARE_A_set, 0)} |->
    Local([w1 \in {set_word_field(FUNCT, w0, inst_table[inst].funct, 3)} |->
    Local([w2 \in {set_word_field(OPCODE, w1, inst_table[inst].op_code, 18)} |->
        IF inst_table[inst].opnd_num > 0
        THEN Local([w3 \in {set_word_field(DEST_ADSS, w2, des_opnd.adss_method, 11)} |->
             Local([w4 \in {set_word_field(DEST_REG, w3,
                                IF des_opnd.adss_method = direct_reg_a
                                THEN des_opnd.reg_index ELSE 0, 8)} |->
                 IF inst_table[inst].opnd_num > 1
                 THEN Local([w5 \in {set_word_field(SRC_ADSS, w4, src_opnd.adss_method, 16)} |->
                          set_word_field(SRC_REG, w5,
                              IF src_opnd.adss_method = direct_reg_a
                              THEN src_opnd.reg_index ELSE 0, 13)])
                 ELSE set_word_field(SRC_REG_SRC_ADSS, w4, 0, 13)])])
        ELSE set_word_field(ALL_OPND_FIELDS, w2, 0, 8)])])])

opnd_word_add_1(opnd, code_img_val) ==
    IF opnd.adss_method = imediate_a THEN word_list_add(opnd.mem_word, code_img_val)
    ELSE IF opnd.adss_method = direct_a THEN word_list_add(0, code_img_val)
    ELSE IF opnd.adss_method = relative_a THEN word_list_add(0, code_img_val)
    ELSE code_img_val

(* update_code_img_1: [st, code, errs]; code is the new value of *code_img_ptr *)
update_code_img_1(line, pos, inst, code_img_ptr, junk) ==
    Local([o \in {get_inst_opnds_1(line, pos, inst, junk)} |->
        IF o.st = "INP_ERROR" THEN [st |-> "INP_ERROR", code |-> code_img_ptr.val, errs |-> o.errs]
        ELSE IF code_img_ptr.nul THEN [st |-> "ALL_GOOD", code |-> code_img_ptr.val, errs |-> o.errs]
        ELSE Local([c0 \in {word_list_add(creat_inst_word(inst, o.src_opnd, o.des_opnd),
                                          code_img_ptr.val)} |->
             Local([c1 \in {IF inst_table[inst].opnd_num = 0 THEN c0
                            ELSE IF inst_table[inst].opnd_num = 1
                            THEN opnd_word_add_1(o.des_opnd, c0)
                            ELSE opnd_word_add_1(o.des_opnd, opnd_word_add_1(o.src_opnd, c0))} |->
                 [st |-> "ALL_GOOD", code |-> c1, errs |-> o.errs]])])])

(* a faulty address of an instruction label: one word too far *)
inst_symb_adss_next(code_img_ptr) ==
    IF ~code_img_ptr.nul THEN Len(code_img_ptr.val) + INITIAL_LOAD_ADSS + 1 ELSE 0

(* the address with which proc_inst_1 installs the label of an instruction *)
inst_symb_adss(code_img_ptr) ==
    IF ~code_img_ptr.nul THEN Len(code_img_ptr.val) + INITIAL_LOAD_ADSS ELSE 0

(* proc_inst_1: [st, code, table, errs] *)
proc_inst_1(line, pos, inst_name, symb_name, is_symb_dec, code_img_ptr, table, junk) ==
    Local([a \in {IF is_symb_dec
                  THEN new_symb_add_1(table, symb_name, inst_symb_adss(code_img_ptr), FALSE, FALSE)
                  ELSE [st |-> "ALL_GOOD", table |-> table, errs |-> 0]} |->
        IF a.st = "INP_ERROR"
        THEN [st |-> "INP_ERROR", code |-> code_img_ptr.val, table |-> a.table, errs |-> a.errs]
        ELSE IF find_ass_inst(inst_name) = 0
        THEN [st |-> "INP_ERROR", code |-> code_img_ptr.val, table |-> a.table, errs |-> 1]
        ELSE Local([u \in {update_code_img_1(line, pos, find_ass_inst(inst_name), code_img_ptr, junk)} |->
                 [st |-> u.st, code |-> u.code, table |-> a.table, errs |-> u.errs]])])

(* the loop of proc_data_guide: a comma, then one more parameter *)
RECURSIVE proc_data_loop(_, _, _, _)
proc_data_loop(line, pos, data_img_ptr, errs) ==
    Local([c \in {comma_check(line, pos, TRUE, FALSE)} |->
        IF c.st # "ALL_GOOD"
        THEN [st |-> c.st, data |-> data_img_ptr.val, errs |-> errs + c.errs]
        ELSE Local([g \in {get_data_word(line, c.pos)} |->
                 IF g.st = "ALL_GOOD"
                 THEN proc_data_loop(line, g.pos,
                          IF data_img_ptr.nul THEN data_img_ptr
                          ELSE PtrTo(word_list_add(g.res, data_img_ptr.val)), errs)
                 ELSE [st |-> g.st, data |-> data_img_ptr.val, errs |-> errs + g.errs]])])

(* proc_data_guide: [st, data, errs]; data is the new value of *data_img_ptr *)
proc_data_guide(line, pos, data_img_ptr) ==
    Local([g \in {get_data_word(line, pos)} |->
    Local([r \in {IF g.st # "ALL_GOOD"
                  THEN [st |-> g.st, data |-> data_img_ptr.val, errs |-> g.errs]
                  ELSE proc_data_loop(line, g.pos,
                           IF data_img_ptr.nul THEN data_img_ptr
                           ELSE PtrTo(word_list_add(g.res, data_img_ptr.val)), 0)} |->
        [st |-> IF r.st = "INP_ERROR" THEN "INP_ERROR" ELSE "ALL_GOOD",
         data |-> r.data, errs |-> r.errs]])])

RECURSIVE string_words_add(_, _, _)
string_words_add(char_str, i, list) ==
    IF i > Len(char_str) THEN word_list_add(0, list)
    ELSE string_words_add(char_str, i + 1, word_list_add(char_to_word(char_str[i]), list))

(* proc_string_guide: [st, data, errs] *)
proc_string_guide(line, data_img_ptr) ==
    Local([g \in {get_char_string(line)} |->
        IF g.st = "INP_ERROR"
        THEN [st |-> "INP_ERROR", data |-> data_img_ptr.val, errs |-> g.errs]
        ELSE [st |-> "ALL_GOOD",
              data |-> IF data_img_ptr.nul THEN data_img_ptr.val
                       ELSE string_words_add(g.str, 1, data_img_ptr.val),
              errs |-> 0]])

(* proc_extern_guide_1: [st, table, errs] *)
proc_extern_guide_1(line, pos, table) ==
    Local([t \in {get_token(line, pos)} |->
        IF Len(t.word) = 0 THEN [st |-> "INP_ERROR", table |-> table, errs |-> 1]
        ELSE Local([a \in {new_symb_add_1(table, t.word, 0, TRUE, FALSE)} |->
                 IF a.st = "INP_ERROR"
                 THEN [st |-> "INP_ERROR", table |-> a.table, errs |-> a.errs]
                 ELSE Local([e \in {line_end_check(line, t.pos)} |->
                          [st |-> e.st, table |-> a.table, errs |-> e.errs]])])])

(* a faulty address of a data label: the start of the data image *)
data_symb_adss_zero(data_img_ptr) == 0

(* the address with which proc_guidance_1 installs the label of a .data or
   .string statement *)
(* a faulty address of a data label, 1 when there is no data image *)
data_symb_adss_one(data_img_ptr) == IF ~data_img_ptr.nul THEN Len(data_img_ptr.val) ELSE 1

data_symb_adss(data_img_ptr) == IF ~data_img_ptr.nul THEN Len(data_img_ptr.val) ELSE 0

Line1Result(st, code, data, table, errs, warns) ==
    [st |-> st, code |-> code, data |-> data, table |-> table, errs |-> errs, warns |-> warns]

(* proc_guidance_1: [st, code, data, table, errs, warns] *)
proc_guidance_1(arg_line, pos, stmnt_name, symb_name, is_symb_dec, code_img_ptr, data_img_ptr, table) ==
    IF Len(stmnt_name) = 0
    THEN Line1Result("INP_ERROR", code_img_ptr.val, data_img_ptr.val, table, 1, 0)
    ELSE IF guide_check(stmnt_name) \in {"g_data", "g_string"}
    THEN Local([a \in {IF is_symb_dec
                       THEN new_symb_add_1(table, symb_name, data_symb_adss(data_img_ptr),
                                           FALSE, TRUE)
                       ELSE [st |-> "ALL_GOOD", table |-> table, errs |-> 0]} |->
             IF a.st = "INP_ERROR"
             THEN Line1Result("INP_ERROR", code_img_ptr.val, data_img_ptr.val, a.table,
                              a.errs, 0)
             ELSE Local([d \in {IF guide_check(stmnt_name) = "g_data"
                                THEN proc_data_guide(arg_line, pos, data_img_ptr)
                                ELSE proc_string_guide(SubSeq(arg_line, pos, Len(arg_line)),
                                                       data_img_ptr)} |->
                      Line1Result(d.st, code_img_ptr.val, d.data, a.table, d.errs, 0)])])
    ELSE IF guide_check(stmnt_name) = "g_extern"
    THEN Local([x \in {proc_extern_guide_1(arg_line, pos, table)} |->
             Line1Result(x.st, code_img_ptr.val, data_img_ptr.val, x.table, x.errs,
                         IF is_symb_dec THEN 1 ELSE 0)])
    ELSE IF guide_check(stmnt_name) = "g_entry"
    THEN Line1Result("ALL_GOOD", code_img_ptr.val, data_img_ptr.val, table, 0, 0)
    ELSE Line1Result("INP_ERROR", code_img_ptr.val, data_img_ptr.val, table, 1, 0)

(* the part of proc_line_1 that follows the key word *)
proc_stmnt_1(line, pos, key_word, symb_name, is_symb_dec, code_img_ptr, data_img_ptr, table, junk) ==
    IF key_word = <<",">>
    THEN Line1Result("INP_ERROR", code_img_ptr.val, data_img_ptr.val, table, 1, 0)
    ELSE IF key_word[1] = "."
    THEN proc_guidance_1(line, pos, Tail(key_word), symb_name, is_symb_dec, code_img_ptr,
                         data_img_ptr, table)
    ELSE Local([r \in {proc_inst_1(line, pos, key_word, symb_name, is_symb_dec, code_img_ptr,
                                   table, junk)} |->
             Line1Result(r.st, r.code, data_img_ptr.val, r.table, r.errs, 0)])

(* a faulty proc_line_1, taking for a comment every line whose first token
   starts with ';' *)
proc_line_1_trim(line, code_img_ptr, data_img_ptr, table, junk) ==
    Local([t1 \in {get_token(line, 1)} |->
        IF Len(t1.word) = 0 \/ t1.word[1] = ";"
        THEN Line1Result("ALL_GOOD", code_img_ptr.val, data_img_ptr.val, table, 0, 0)
        ELSE IF t1.word[Len(t1.word)] = ":"
        THEN Local([t2 \in {get_token(line, t1.pos)} |->
                 IF Len(t2.word) = 0
                 THEN Line1Result("ALL_GOOD", code_img_ptr.val, data_img_ptr.val, table, 0, 1)
                 ELSE proc_stmnt_1(line, t2.pos, t2.word,
                                   SubSeq(t1.word, 1, Len(t1.word) - 1), TRUE,
                                   code_img_ptr, data_img_ptr, table, junk)])
        ELSE proc_stmnt_1(line, t1.pos, t1.word, <<>>, FALSE,
                          code_img_ptr, data_img_ptr, table, junk)])

(* proc_line_1: [st, code, data, table, errs, warns] *)
proc_line_1(line, code_img_ptr, data_img_ptr, table, junk) ==
    Local([t1 \in {get_token(line, 1)} |->
        IF (Len(line) > 0 /\ line[1] = ";") \/ Len(t1.word) = 0
        THEN Line1Result("ALL_GOOD", code_img_ptr.val, data_img_ptr.val, table, 0, 0)
        ELSE IF t1.word[Len(t1.word)] = ":"
        THEN Local([t2 \in {get_token(line, t1.pos)} |->
                 IF Len(t2.word) = 0
                 THEN Line1Result("ALL_GOOD", code_img_ptr.val, data_img_ptr.val, table, 0, 1)
                 ELSE proc_stmnt_1(line, t2.pos, t2.word,
                                   SubSeq(t1.word, 1, Len(t1.word) - 1), TRUE,
                                   code_img_ptr, data_img_ptr, table, junk)])
        ELSE proc_stmnt_1(line, t1.pos, t1.word, <<>>, FALSE,
                          code_img_ptr, data_img_ptr, table, junk)])

----------------------------------------------------------------------------
(* as_2nd_scan.c.  The pointer curr_word_ptr is [nul, val]: val is the index
   in the code image of the node *curr_word_ptr points to, and *curr_word_ptr
   is NULL when that index is past the last node. *)

(* get_rltv_opnd_word: [st, word, errs] *)
get_rltv_opnd_word(symb_name, table, curr_inst_adss, junk) ==
    Local([symb \in {symb_lookup(table, symb_name)} |->
        IF symb.i = 0 THEN [st |-> "INP_ERROR", word |-> junk, errs |-> 1]
        ELSE IF SymbAt(table, symb).is_extern
        THEN [st |-> "INP_ERROR", word |-> junk, errs |-> 1]
        ELSE LET symb_adss == get_symb_adss(SymbAt(table, symb))
             IN  [st |-> "ALL_GOOD",
                  word |-> set_word_field(ARE,
                               set_word_field(NON_ARE, junk,
                                   long_to_s21b(symb_adss - curr_inst_adss), 3),
                               ARE_A_set, 0),
                  errs |-> 0]])

(* str_to_opnd_2: [st, opnd, errs] *)
str_to_opnd_2(opnd_str, table, curr_inst_adss, junk) ==
    IF opnd_str[1] = "#"
    THEN [st |-> "ALL_GOOD", opnd |-> [NoOperand EXCEPT !.adss_method = imediate_a], errs |-> 0]
    ELSE IF reg_check(opnd_str) # -1
    THEN [st |-> "ALL_GOOD", opnd |-> [NoOperand EXCEPT !.adss_method = direct_reg_a], errs |-> 0]
    ELSE IF opnd_str[1] = "&"
    THEN Local([r \in {get_rltv_opnd_word(Tail(opnd_str), table, curr_inst_adss, junk)} |->
             [st |-> r.st,
              opnd |-> [NoOperand EXCEPT !.adss_method = relative_a, !.mem_word = r.word],
              errs |-> r.errs]])
    ELSE Local([new_symb \in {symb_lookup(table, opnd_str)} |->
             IF new_symb.i = 0
             THEN [st |-> "INP_ERROR", opnd |-> [NoOperand EXCEPT !.adss_method = direct_a],
                   errs |-> 1]
             ELSE [st |-> "ALL_GOOD",
                   opnd |-> [NoOperand EXCEPT !.adss_method = direct_a,
                                              !.symb = SymbAt(table, new_symb)],
                   errs |-> 0]])

Scan2State(cw, code, ic, ext, errs) ==
    [cw |-> cw, code |-> code, IC |-> ic, ext |-> ext, errs |-> errs]

(* a faulty proc_opnd_2, stepping over the word of a direct operand and
   leaving it as the first scan made it *)
proc_opnd_2_keep(opnd_str, curr_word_ptr, s, curr_inst_adss, ext_list_ptr, table, junk) ==
    Local([r \in {str_to_opnd_2(opnd_str, table, curr_inst_adss, junk)} |->
    Local([s1 \in {[s EXCEPT !.errs = s.errs + r.errs]} |->
        IF r.st # "ALL_GOOD" THEN [st |-> r.st, s |-> s1]
        ELSE IF curr_word_ptr.nul \/ s.cw > Len(s.code) THEN [st |-> r.st, s |-> s1]
        ELSE IF r.opnd.adss_method = imediate_a
        THEN [st |-> r.st, s |-> [s1 EXCEPT !.cw = s.cw + 1, !.IC = s.IC + 1]]
        ELSE IF r.opnd.adss_method = direct_reg_a
        THEN [st |-> r.st, s |-> s1]
        ELSE IF r.opnd.adss_method = relative_a
        THEN [st |-> r.st,
              s |-> [s1 EXCEPT !.code = [s.code EXCEPT ![s.cw] = r.opnd.mem_word],
                               !.cw = s.cw + 1, !.IC = s.IC + 1]]
        ELSE [st |-> r.st,
              s |-> [s1 EXCEPT !.ext = IF ~ext_list_ptr.nul /\ r.opnd.symb.is_extern
                                       THEN ext_list_add(r.opnd.symb.name, s.IC, s.ext)
                                       ELSE s.ext,
                               !.cw = s.cw + 1, !.IC = s.IC + 1]]])])

(* a faulty proc_opnd_2, writing the word of the operand whether or not the
   pointer to the current word is NULL *)
proc_opnd_2_write(opnd_str, curr_word_ptr, s, curr_inst_adss, ext_list_ptr, table, junk) ==
    Local([r \in {str_to_opnd_2(opnd_str, table, curr_inst_adss, junk)} |->
    Local([s1 \in {[s EXCEPT !.errs = s.errs + r.errs]} |->
        IF r.st # "ALL_GOOD" THEN [st |-> r.st, s |-> s1]
        ELSE IF s.cw > Len(s.code) THEN [st |-> r.st, s |-> s1]
        ELSE IF r.opnd.adss_method = imediate_a
        THEN [st |-> r.st, s |-> [s1 EXCEPT !.cw = s.cw + 1, !.IC = s.IC + 1]]
        ELSE IF r.opnd.adss_method = direct_reg_a
        THEN [st |-> r.st, s |-> s1]
        ELSE IF r.opnd.adss_method = relative_a
        THEN [st |-> r.st,
              s |-> [s1 EXCEPT !.code = [s.code EXCEPT ![s.cw] = r.opnd.mem_word],
                               !.cw = s.cw + 1, !.IC = s.IC + 1]]
        ELSE [st |-> r.st,
              s |-> [s1 EXCEPT !.code = [s.code EXCEPT ![s.cw] = r.opnd.symb.rep_word],
                               !.cw = s.cw + 1, !.IC = s.IC + 1]]])])

(* proc_opnd_2: [st, s] where s is the Scan2State it leaves *)
proc_opnd_2(opnd_str, curr_word_ptr, s, curr_inst_adss, ext_list_ptr, table, junk) ==
    Local([r \in {str_to_opnd_2(opnd_str, table, curr_inst_adss, junk)} |->
    Local([s1 \in {[s EXCEPT !.errs = s.errs + r.errs]} |->
        IF r.st # "ALL_GOOD" THEN [st |-> r.st, s |-> s1]
        ELSE IF curr_word_ptr.nul \/ s.cw > Len(s.code) THEN [st |-> r.st, s |-> s1]
        ELSE IF r.opnd.adss_method = imediate_a
        THEN [st |-> r.st, s |-> [s1 EXCEPT !.cw = s.cw + 1, !.IC = s.IC + 1]]
        ELSE IF r.opnd.adss_method = direct_reg_a
        THEN [st |-> r.st, s |-> s1]
        ELSE IF r.opnd.adss_method = relative_a
        THEN [st |-> r.st,
              s |-> [s1 EXCEPT !.code = [s.code EXCEPT ![s.cw] = r.opnd.mem_word],
                               !.cw = s.cw + 1, !.IC = s.IC + 1]]
        ELSE [st |-> r.st,
              s |-> [s1 EXCEPT !.ext = IF ~ext_list_ptr.nul /\ r.opnd.symb.is_extern
                                       THEN ext_list_add(r.opnd.symb.name, s.IC, s.ext)
                                       ELSE s.ext,
                               !.code = [s.code EXCEPT ![s.cw] = r.opnd.symb.rep_word],
                               !.cw = s.cw + 1, !.IC = s.IC + 1]]])])

(* the while loop of proc_inst_2 *)
RECURSIVE proc_inst_2_loop(_, _, _, _, _, _, _, _, _)
proc_inst_2_loop(arg_line, pos, is_1st_opnd, curr_word_ptr, s, curr_inst_adss, ext_list_ptr, table, junk) ==
    Local([t \in {get_token(arg_line, pos)} |->
        IF Len(t.word) = 0
        THEN [st |-> IF is_1st_opnd THEN "ALL_GOOD" ELSE "INP_ERROR", s |-> s]
        ELSE IF t.word = <<",">> THEN [st |-> "INP_ERROR", s |-> s]
        ELSE Local([o \in {proc_opnd_2(t.word, curr_word_ptr, s, curr_inst_adss, ext_list_ptr,
                                       table, junk)} |->
             Local([n \in {get_token(arg_line, t.pos)} |->
                 IF o.st = "INP_ERROR" THEN [st |-> "INP_ERROR", s |-> o.s]
                 ELSE IF Len(n.word) = 0 THEN [st |-> "ALL_GOOD", s |-> o.s]
                 ELSE IF n.word # <<",">> THEN [st |-> "INP_ERROR", s |-> o.s]
                 ELSE proc_inst_2_loop(arg_line, n.pos, FALSE, curr_word_ptr, o.s,
                                       curr_inst_adss, ext_list_ptr, table, junk)])])])

(* a faulty proc_inst_2, starting the operands on the first word of the
   instruction *)
proc_inst_2_stay(arg_line, pos, curr_word_ptr, s, ext_list_ptr, table, junk) ==
    proc_inst_2_loop(arg_line, pos, TRUE, curr_word_ptr, s, s.IC, ext_list_ptr, table, junk)

(* proc_inst_2: [st, s] *)
proc_inst_2(arg_line, pos, curr_word_ptr, s, ext_list_ptr, table, junk) ==
    LET curr_inst_adss == s.IC
        s0 == IF ~curr_word_ptr.nul /\ s.cw <= Len(s.code)
              THEN [s EXCEPT !.cw = s.cw + 1, !.IC = s.IC + 1]
              ELSE s
    IN  proc_inst_2_loop(arg_line, pos, TRUE, curr_word_ptr, s0, curr_inst_adss,
                         ext_list_ptr, table, junk)

(* a faulty proc_entry_guide, taking the symbol out of the data image when
   it marks it as an entry *)
proc_entry_guide_flag(line, pos, table) ==
    Local([t \in {get_token(line, pos)} |->
    Local([symb \in {symb_lookup(table, t.word)} |->
        IF Len(t.word) = 0 THEN [st |-> "INP_ERROR", table |-> table, errs |-> 1]
        ELSE IF symb.i = 0 THEN [st |-> "INP_ERROR", table |-> table, errs |-> 1]
        ELSE IF SymbAt(table, symb).is_extern
        THEN [st |-> "INP_ERROR", table |-> table, errs |-> 1]
        ELSE Local([e \in {line_end_check(line, t.pos)} |->
                 [st |-> e.st,
                  table |-> [table EXCEPT ![symb.h][symb.i].is_entry = TRUE,
                                          ![symb.h][symb.i].is_data = FALSE],
                  errs |-> e.errs]])])])

(* a faulty proc_entry_guide, accepting an external symbol *)
proc_entry_guide_any(line, pos, table) ==
    Local([t \in {get_token(line, pos)} |->
    Local([symb \in {symb_lookup(table, t.word)} |->
        IF Len(t.word) = 0 THEN [st |-> "INP_ERROR", table |-> table, errs |-> 1]
        ELSE IF symb.i = 0 THEN [st |-> "INP_ERROR", table |-> table, errs |-> 1]
        ELSE Local([e \in {line_end_check(line, t.pos)} |->
                 [st |-> e.st,
                  table |-> [table EXCEPT ![symb.h][symb.i].is_entry = TRUE],
                  errs |-> e.errs]])])])

(* proc_entry_guide: [st, table, errs] *)
proc_entry_guide(line, pos, table) ==
    Local([t \in {get_token(line, pos)} |->
    Local([symb \in {symb_lookup(table, t.word)} |->
        IF Len(t.word) = 0 THEN [st |-> "INP_ERROR", table |-> table, errs |-> 1]
        ELSE IF symb.i = 0 THEN [st |-> "INP_ERROR", table |-> table, errs |-> 1]
        ELSE IF SymbAt(table, symb).is_extern
        THEN [st |-> "INP_ERROR", table |-> table, errs |-> 1]
        ELSE Local([e \in {line_end_check(line, t.pos)} |->
                 [st |-> e.st,
                  table |-> [table EXCEPT ![symb.h][symb.i].is_entry = TRUE],
                  errs |-> e.errs]])])])

Line2Result(st, s, table, warns) == [st |-> st, s |-> s, table |-> table, warns |-> warns]

(* the part of proc_line_2 that follows the key word *)
proc_stmnt_2(line, pos, token, is_symb_dec, curr_word_ptr, s, ext_list_ptr, table, junk) ==
    IF token[1] = "."
    THEN IF Tail(token) = <<"e","n","t","r","y">>
         THEN Local([e \in {proc_entry_guide(line, pos, table)} |->
                  Line2Result(e.st, [s EXCEPT !.errs = s.errs + e.errs], e.table,
                              IF is_symb_dec THEN 1 ELSE 0)])
         ELSE Line2Result("ALL_GOOD", s, table, 0)
    ELSE IF find_ass_inst(token) # 0
    THEN Local([r \in {proc_inst_2(line, pos, curr_word_ptr, s, ext_list_ptr, table, junk)} |->
             Line2Result(r.st, r.s, table, 0)])
    ELSE Line2Result("INP_ERROR", s, table, 0)

(* proc_line_2: [st, s, table, warns] *)
proc_line_2(line, curr_word_ptr, s, ext_list_ptr, table, junk) ==
    Local([t1 \in {get_token(line, 1)} |->
        IF (Len(line) > 0 /\ line[1] = ";") \/ Len(t1.word) = 0
        THEN Line2Result("ALL_GOOD", s, table, 0)
        ELSE IF t1.word[Len(t1.word)] = ":"
        THEN Local([t2 \in {get_token(line, t1.pos)} |->
                 IF Len(t2.word) = 0 THEN Line2Result("ALL_GOOD", s, table, 0)
                 ELSE proc_stmnt_2(line, t2.pos, t2.word, TRUE, curr_word_ptr, s,
                                   ext_list_ptr, table, junk)])
        ELSE proc_stmnt_2(line, t1.pos, t1.word, FALSE, curr_word_ptr, s,
                          ext_list_ptr, table, junk)])

----------------------------------------------------------------------------
(* The output files: as_mem_words.c, as_symb_table.c, assembler_io.c *)

HexDigits == <<"0","1","2","3","4","5","6","7","8","9","a","b","c","d","e","f">>

RECURSIVE word_to_str_loop(_, _)
word_to_str_loop(mem_word, shift_val) ==
    IF shift_val < 0 THEN <<>>
    ELSE <<HexDigits[((mem_word \div Pow2(shift_val)) % 16) + 1]>>
         \o word_to_str_loop(mem_word, shift_val - 4)

(* a faulty word_to_str, leaving the field of the three lowest bits out *)
word_to_str_no_are(mem_word) == word_to_str_loop(mem_word - (mem_word % 8), WORD_BIT_LEN - 4)

word_to_str(mem_word) == word_to_str_loop(mem_word, WORD_BIT_LEN - 4)

RECURSIVE adss_to_str_loop(_, _)
adss_to_str_loop(adss, i) ==
    IF i < 0 THEN <<>>
    ELSE adss_to_str_loop(adss \div 10, i - 1) \o <<DigitChars[(adss % 10) + 1]>>

adss_to_str(adss) == adss_to_str_loop(adss, ADSS_DEC_LEN - 1)

(* the "%lu" conversion of fprintf *)
RECURSIVE ulong_to_str(_)
ulong_to_str(n) ==
    IF n < 10 THEN <<DigitChars[n + 1]>>
    ELSE ulong_to_str(n \div 10) \o <<DigitChars[(n % 10) + 1]>>

RECURSIVE pnt_word_list_from(_, _, _)
pnt_word_list_from(wlist, i, curr_adss) ==
    IF i > Len(wlist) THEN <<>>
    ELSE adss_to_str(curr_adss) \o <<" ">> \o word_to_str(wlist[i])
         \o (IF i < Len(wlist) THEN <<"\n">> ELSE <<>>)
         \o pnt_word_list_from(wlist, i + 1, curr_adss + 1)

(* a faulty pnt_word_list, printing the first word at the next address *)
pnt_word_list_next(wlist, curr_adss) == pnt_word_list_from(wlist, 1, curr_adss + 1)

pnt_word_list(wlist, curr_adss) == pnt_word_list_from(wlist, 1, curr_adss)

RECURSIVE pnt_ext_list_from(_, _)
pnt_ext_list_from(elist, i) ==
    IF i > Len(elist) THEN <<>>
    ELSE elist[i].name \o <<" ">> \o adss_to_str(elist[i].adss)
         \o (IF i < Len(elist) THEN <<"\n">> ELSE <<>>)
         \o pnt_ext_list_from(elist, i + 1)

pnt_ext_list(elist) == pnt_ext_list_from(elist, 1)

NoFile == [exists |-> FALSE, text |-> <<>>]
FileWith(text) == [exists |-> TRUE, text |-> text]

(* a faulty create_ob_file, printing an empty line between the two images *)
create_ob_file_blank(code, data) ==
    FileWith(ulong_to_str(Len(code)) \o <<" ">> \o ulong_to_str(Len(data)) \o <<"\n">>
             \o pnt_word_list(code, INITIAL_LOAD_ADSS)
             \o <<"\n", "\n">>
             \o pnt_word_list(data, INITIAL_LOAD_ADSS + Len(code)))

create_ob_file(code, data) ==
    FileWith(ulong_to_str(Len(code)) \o <<" ">> \o ulong_to_str(Len(data)) \o <<"\n">>
             \o pnt_word_list(code, INITIAL_LOAD_ADSS)
             \o <<"\n">>
             \o pnt_word_list(data, INITIAL_LOAD_ADSS + Len(code)))

(* a faulty form_ext_file, creating the file for an empty list too *)
form_ext_file_always(elist) == FileWith(pnt_ext_list(elist))

form_ext_file(elist) ==
    IF Len(elist) # 0 THEN FileWith(pnt_ext_list(elist)) ELSE NoFile

RECURSIVE form_ent_lines(_, _, _)
form_ent_lines(symbols, i, first) ==
    IF i > Len(symbols) THEN <<>>
    ELSE IF symbols[i].is_entry
    THEN (IF first THEN <<>> ELSE <<"\n">>)
         \o symbols[i].name \o <<" ">> \o adss_to_str(symbols[i].rep_word \div 8)
         \o form_ent_lines(symbols, i + 1, FALSE)
    ELSE form_ent_lines(symbols, i + 1, first)

form_ent_file(table) ==
    Local([symbols \in {TableScan(table, 0)} |->
        IF \E i \in 1..Len(symbols) : symbols[i].is_entry
        THEN FileWith(form_ent_lines(symbols, 1, TRUE))
        ELSE NoFile])

----------------------------------------------------------------------------
(* The source files.  A file is the concatenation of at most MaxLines lines
   of a pool, each followed by a new-line character. *)

MaxLines == 3
MaxExtLines == 3
MaxEntLines == 4
MaxDeclLines == 3
MaxObLines == 3
MaxInstLines == 2
MaxLexLines == 2
MaxNoteLines == 3
MaxArgs == 2
MaxSkipLines == 3
MaxWordLines == 3

ln_extern_X == <<".","e","x","t","e","r","n"," ","X">>
ln_jmp_X == <<"j","m","p"," ","X">>
ln_cmp_X_X == <<"c","m","p"," ","X",","," ","X">>
ln_mov_r1_X == <<"m","o","v"," ","r","1",","," ","X">>
ln_jmp_L == <<"j","m","p"," ","L">>
ln_jmp_rel_L == <<"j","m","p"," ","&","L">>
ln_L_stop == <<"L",":"," ","s","t","o","p">>
ln_L_data == <<"L",":"," ",".","d","a","t","a"," ","5",","," ","-","1">>
ln_S_string == <<"S",":"," ",".","s","t","r","i","n","g"," ","\"","a","\"">>
ln_entry_L == <<".","e","n","t","r","y"," ","L">>
ln_entry_X == <<".","e","n","t","r","y"," ","X">>
ln_entry_L_x == <<".","e","n","t","r","y"," ","L"," ","x">>
ln_jmp_rel_X == <<"j","m","p"," ","&","X">>
ln_A_stop == <<"A",":"," ","s","t","o","p">>
ln_entry_A == <<".","e","n","t","r","y"," ","A">>
ln_A_data == <<"A",":"," ",".","d","a","t","a"," ","7">>

RECURSIVE Spaces(_)
Spaces(n) == IF n <= 0 THEN <<>> ELSE <<" ">> \o Spaces(n - 1)

(* a statement followed by blanks up to one character more than a line may hold *)
ln_too_long == <<"s","t","o","p">> \o Spaces(MAX_LINE_LEN + 1 - 4)

LinePool == <<ln_extern_X, ln_jmp_X, ln_jmp_rel_L, ln_L_stop, ln_L_data, ln_S_string,
              ln_entry_L, ln_entry_X, ln_entry_L_x, ln_jmp_rel_X, ln_too_long>>

ExtPool == <<ln_extern_X, ln_jmp_X, ln_cmp_X_X, ln_mov_r1_X, ln_L_stop, ln_jmp_L, ln_entry_L>>

EntPool == <<ln_L_stop, ln_A_stop, ln_entry_L, ln_entry_A, ln_A_data>>

(* statements that declare labels, in the code and in the data image *)
DeclPool == <<ln_L_data, ln_S_string, ln_A_data, ln_L_stop, ln_A_stop, ln_jmp_X, ln_too_long>>

(* more source lines, by name *)
ln ==
    [stop     |-> <<"s","t","o","p">>,
     extern_A |-> <<".","e","x","t","e","r","n"," ","A">>,
     jmp_A    |-> <<"j","m","p"," ","A">>,
     data_lim |-> <<".","d","a","t","a"," ","-","8","3","8","8","6","0","8",","," ",
                    "8","3","8","8","6","0","7",","," ","-","1">>,
     mov_r3_r5  |-> <<"m","o","v"," ","r","3",","," ","r","5">>,
     lea_imm_r1 |-> <<"l","e","a"," ","#","1",","," ","r","1">>,
     lea_A_r1   |-> <<"l","e","a"," ","A",","," ","r","1">>,
     mov_r1_imm |-> <<"m","o","v"," ","r","1",","," ","#","2">>,
     cmp_imm    |-> <<"c","m","p"," ","#","1",","," ","#","-","2">>,
     jmp_rel_A  |-> <<"j","m","p"," ","&","A">>,
     mov_rel_A  |-> <<"m","o","v"," ","&","A",","," ","r","1">>,
     clr_rel_A  |-> <<"c","l","r"," ","&","A">>,
     prn_min    |-> <<"p","r","n"," ","#","-","1","0","4","8","5","7","6">>,
     prn_max    |-> <<"p","r","n"," ","#","1","0","4","8","5","7","5">>,
     prn_neg    |-> <<"p","r","n"," ","#","-","1">>,
     stop_r1    |-> <<"s","t","o","p"," ","r","1">>,
     jmp        |-> <<"j","m","p">>,
     mov_r1     |-> <<"m","o","v"," ","r","1">>,
     mov_3      |-> <<"m","o","v"," ","r","1",","," ","r","2",","," ","r","3">>,
     empty      |-> <<>>,
     stop_80    |-> <<"s","t","o","p">> \o Spaces(MAX_LINE_LEN - 4),
     stop_83    |-> <<"s","t","o","p">> \o Spaces(MAX_LINE_LEN + 3 - 4),
     name_31    |-> <<"L","0","1","2","3","4","5","6","7","8","9","0","1","2","3","4","5","6","7","8","9",
                   "0","1","2","3","4","5","6","7","8","9",
                   ":"," ","s","t","o","p">>,
     name_32    |-> <<"L","0","1","2","3","4","5","6","7","8","9","0","1","2","3","4","5","6","7","8","9",
                   "0","1","2","3","4","5","6","7","8","9",
                   "x",":"," ","s","t","o","p">>,
     name_1a    |-> <<"1","a",":"," ","s","t","o","p">>,
     name_a_b   |-> <<"a","_","b",":"," ","s","t","o","p">>,
     name_mov   |-> <<"m","o","v",":"," ","s","t","o","p">>,
     name_data  |-> <<"d","a","t","a",":"," ","s","t","o","p">>,
     name_r1    |-> <<"r","1",":"," ","s","t","o","p">>,
     name_r8    |-> <<"r","8",":"," ","s","t","o","p">>,
     name_none  |-> <<":"," ","s","t","o","p">>,
     com_A_data  |-> <<";","A",":"," ",".","d","a","t","a"," ","7">>,
     sp_com_A    |-> <<" ",";","A",":"," ",".","d","a","t","a"," ","7">>,
     sp_com      |-> <<" ",";"," ","x">>,
     A_extern_B  |-> <<"A",":"," ",".","e","x","t","e","r","n"," ","B">>,
     A_entry_B   |-> <<"A",":"," ",".","e","n","t","r","y"," ","B">>,
     A_only      |-> <<"A",":">>,
     B_stop      |-> <<"B",":"," ","s","t","o","p">>,
     A_jmp_A     |-> <<"A",":"," ","j","m","p"," ","A">>]

(* one name declared as a label of code, as a label of data and as an external
   symbol, used and named by a .entry; a .data statement without a label *)
ObPool == <<ln.stop, ln_A_stop, ln_A_data, ln.extern_A, ln_entry_A, ln.jmp_A, ln.data_lim>>

(* instruction statements: operands of every addressing method in both
   slots, permitted and not, too few and too many operands, immediate
   operands at the limits of 21 bits *)
InstPool == <<ln.mov_r3_r5, ln.lea_imm_r1, ln.lea_A_r1, ln.mov_r1_imm, ln.cmp_imm,
              ln.jmp_rel_A, ln.mov_rel_A, ln.clr_rel_A, ln.prn_min, ln.prn_max, ln.prn_neg,
              ln.stop_r1, ln.jmp, ln.mov_r1, ln.mov_3, ln_A_stop>>

(* lines of 0, 80, 81 and 83 characters, and labels of every kind: of 31 and
   of 32 characters, with a first character or a character that is not
   permitted, reserved words, no name at all *)
LexPool == <<ln.empty, ln.stop_80, ln_too_long, ln.stop_83, ln.name_31, ln.name_32,
             ln.name_1a, ln.name_a_b, ln.name_mov, ln.name_data, ln.name_r1, ln.name_r8,
             ln.name_none>>

(* comments, lines with blanks before the ';', and labels before .extern,
   before .entry and alone on a line, with later declarations of the names *)
NotePool == <<ln.com_A_data, ln.sp_com_A, ln.sp_com, ln.A_extern_B, ln.A_entry_B,
              ln.A_only, ln_A_stop, ln.B_stop>>

(* an error of the first scan, and the statements the second scan reports:
   an undefined symbol, a relative operand that is external, a .entry of an
   undefined symbol; an external operand that would enter the list *)
SkipPool == <<ln.sp_com, ln_extern_X, ln_jmp_X, ln_jmp_L, ln_jmp_rel_X, ln_entry_L,
              ln_L_stop>>

(* statements whose words are of every kind: first words, immediate and
   relative operands, direct operands that name a label of the code, a label
   of the data and an external symbol; a .entry statement *)
WordPool == <<ln_extern_X, ln_jmp_X, ln_A_stop, ln_A_data, ln.A_jmp_A, ln.jmp_rel_A,
              ln.prn_neg, ln.lea_A_r1, ln_entry_A>>

RECURSIVE FileOf(_, _, _)
FileOf(pool, choice, i) ==
    IF i > Len(choice) THEN <<>>
    ELSE pool[choice[i]] \o <<"\n">> \o FileOf(pool, choice, i + 1)

Files(pool, max_lines) ==
    {FileOf(pool, choice, 1) : choice \in UNION {[1..n -> 1..Len(pool)] : n \in 0..max_lines}}

(* the same files, and each of them without the new-line character that ends
   its last line *)
FilesEof(pool, max_lines) ==
    Files(pool, max_lines)
        \cup {SubSeq(f, 1, Len(f) - 1) : f \in Files(pool, max_lines) \ {<<>>}}

(* the values an uninitialised Word may hold above its 24 bits *)
JunkValues == {0, Pow2(WORD_BIT_LEN)}

(* a line without the character that introduces an immediate ('#', first scan)
   or a relative ('&', second scan) operand never reads the uninitialised Word *)
JunkOf(line, mark) == IF mark \in Range(line) THEN JunkValues ELSE {0}

----------------------------------------------------------------------------
(* as_proc_file: the state machine *)

(* printerr: the file name of the messages while no source file is scanned *)
UNKNOWN_FILE == <<"unknown-file", "">>

(* as_proc_file: the name of the source file of an argument of the command line *)
SourceName(origin_fname) == <<origin_fname, ".as">>

(* the history record of one line read by a scan: the line, what the scan
   made of it, and the images and the error count as they were before it *)
LogRecord(scan, line, st, errs_to) ==
    [scan |-> scan, line |-> line, st |-> st, errs |-> err_cnt, errs_to |-> errs_to,
     code |-> code_img, data_size |-> Len(data_img), good |-> status # "INP_ERROR"]

InitWith(files) ==
    /\ file \in files
    /\ pc = "scan1"
    /\ fpos = 1
    /\ line_num = 0
    /\ status = "ALL_GOOD"
    /\ code_img = <<>>
    /\ data_img = <<>>
    /\ symb_table = intlz_symbt
    /\ ext_list = <<>>
    /\ curr_word = 1
    /\ IC = INITIAL_LOAD_ADSS
    /\ out = [ob |-> NoFile, ext |-> NoFile, ent |-> NoFile]
    /\ err_cnt = 0
    /\ warn_cnt = 0
    /\ err_cnt_1 = 0
    /\ log = <<>>
    /\ argv = <<[name |-> "1", text |-> file, readable |-> TRUE]>>
    /\ argi = 1
    /\ curr_file_name = SourceName("1")
    /\ exit_code = 0
    /\ done_files = <<>>
    /\ fault = "none"

Init == InitWith(Files(LinePool, MaxLines))

InitExt == InitWith(Files(ExtPool, MaxExtLines))

InitEnt == InitWith(Files(EntPool, MaxEntLines))

InitDecl == InitWith(Files(DeclPool, MaxDeclLines))

(* one iteration of the loop of run_1st_scan that reads a line *)
Scan1Line ==
    /\ pc = "scan1"
    /\ get_line(file, fpos).st # "EOF_ENC"
    /\ \E junk \in JunkOf(get_line(file, fpos).line, "#") :
        \E r \in {get_line(file, fpos)} :
        \E p \in {IF status # "INP_ERROR"
                  THEN proc_line_1(r.line, PtrTo(code_img), PtrTo(data_img), symb_table, junk)
                  ELSE proc_line_1(r.line, NULL, NULL, symb_table, junk)} :
            /\ fpos' = r.pos
            /\ line_num' = line_num + 1
            /\ IF r.st = "STR_TOO_LONG"
               THEN /\ status' = "INP_ERROR"
                    /\ err_cnt' = err_cnt + 1
                    /\ log' = Append(log, LogRecord(1, r.line, "STR_TOO_LONG", err_cnt + 1))
                    /\ UNCHANGED <<code_img, data_img, symb_table, warn_cnt>>
               ELSE /\ status' = IF status # "INP_ERROR" /\ p.st = "INP_ERROR"
                                 THEN "INP_ERROR" ELSE status
                    /\ code_img' = IF status # "INP_ERROR" THEN p.code ELSE code_img
                    /\ data_img' = IF status # "INP_ERROR" THEN p.data ELSE data_img
                    /\ symb_table' = p.table
                    /\ err_cnt' = err_cnt + p.errs
                    /\ warn_cnt' = warn_cnt + p.warns
                    /\ log' = Append(log, LogRecord(1, r.line, p.st, err_cnt + p.errs))
    /\ UNCHANGED <<drv, curr_file_name>>
    /\ UNCHANGED <<file, pc, ext_list, curr_word, IC, out, err_cnt_1>>

(* the end of run_1st_scan (the data shift) and the start of run_2nd_scan *)
Scan1End ==
    /\ pc = "scan1"
    /\ get_line(file, fpos).st = "EOF_ENC"
    /\ symb_table' = inc_data(symb_table, Len(code_img) + INITIAL_LOAD_ADSS)
    /\ pc' = "scan2"
    /\ fpos' = 1
    /\ line_num' = 0
    /\ curr_word' = 1
    /\ IC' = INITIAL_LOAD_ADSS
    /\ err_cnt_1' = err_cnt
    /\ UNCHANGED <<drv, curr_file_name>>
    /\ UNCHANGED <<file, status, code_img, data_img, ext_list, out, err_cnt, warn_cnt, log>>

(* one iteration of the loop of run_2nd_scan that reads a line *)
Scan2Line ==
    /\ pc = "scan2"
    /\ get_line(file, fpos).st # "EOF_ENC"
    /\ \E junk \in JunkOf(get_line(file, fpos).line, "&") :
        \E r \in {get_line(file, fpos)} :
        \E s \in {Scan2State(curr_word, code_img, IC, ext_list, 0)} :
        \E p \in {IF status # "INP_ERROR"
                  THEN proc_line_2(r.line, PtrTo(curr_word), s, PtrTo(ext_list), symb_table, junk)
                  ELSE proc_line_2(r.line, NULL, s, NULL, symb_table, junk)} :
            /\ fpos' = r.pos
            /\ line_num' = line_num + 1
            /\ IF r.st = "STR_TOO_LONG"
               THEN /\ log' = Append(log, LogRecord(2, r.line, "STR_TOO_LONG", err_cnt))
                    /\ UNCHANGED <<status, code_img, symb_table, ext_list, curr_word, IC,
                                   err_cnt, warn_cnt>>
               ELSE /\ status' = IF status # "INP_ERROR" /\ p.st = "INP_ERROR"
                                 THEN "INP_ERROR" ELSE status
                    /\ code_img' = p.s.code
                    /\ curr_word' = p.s.cw
                    /\ IC' = p.s.IC
                    /\ ext_list' = p.s.ext
                    /\ symb_table' = p.table
                    /\ err_cnt' = err_cnt + p.s.errs
                    /\ warn_cnt' = warn_cnt + p.warns
                    /\ log' = Append(log, LogRecord(2, r.line, p.st, err_cnt + p.s.errs))
    /\ UNCHANGED <<drv, curr_file_name>>
    /\ UNCHANGED <<file, pc, data_img, out, err_cnt_1>>

(* a faulty scan_as_src_file, leaving the name of the file to printerr *)
Scan2End_keep_name ==
    /\ pc = "scan2"
    /\ get_line(file, fpos).st = "EOF_ENC"
    /\ pc' = "emit"
    /\ line_num' = line_num + 1
    /\ UNCHANGED <<drv, curr_file_name>>
    /\ UNCHANGED <<file, fpos, status, code_img, data_img, symb_table, ext_list,
                   curr_word, IC, out, err_cnt, warn_cnt, err_cnt_1, log>>

(* the end of run_2nd_scan and of scan_as_src_file *)
Scan2End ==
    /\ pc = "scan2"
    /\ get_line(file, fpos).st = "EOF_ENC"
    /\ pc' = "emit"
    /\ line_num' = line_num + 1
    /\ curr_file_name' = UNKNOWN_FILE
    /\ UNCHANGED drv
    /\ UNCHANGED <<file, fpos, status, code_img, data_img, symb_table, ext_list,
                   curr_word, IC, out, err_cnt, warn_cnt, err_cnt_1, log>>

(* a faulty as_proc_file, producing the output files whatever the scan returned *)
Emit_always ==
    /\ pc = "emit"
    /\ out' = [ob  |-> create_ob_file(code_img, data_img),
               ext |-> form_ext_file(ext_list),
               ent |-> form_ent_file(symb_table)]
    /\ pc' = "clear"
    /\ UNCHANGED <<drv, curr_file_name>>
    /\ UNCHANGED <<file, fpos, line_num, status, code_img, data_img, symb_table, ext_list,
                   curr_word, IC, err_cnt, warn_cnt, err_cnt_1, log>>

(* a faulty as_proc_file, producing no output file after a warning *)
Emit_no_warning ==
    /\ pc = "emit"
    /\ out' = IF status = "ALL_GOOD" /\ warn_cnt = 0
              THEN [ob  |-> create_ob_file(code_img, data_img),
                    ext |-> form_ext_file(ext_list),
                    ent |-> form_ent_file(symb_table)]
              ELSE out
    /\ pc' = "clear"
    /\ UNCHANGED <<drv, curr_file_name>>
    /\ UNCHANGED <<file, fpos, line_num, status, code_img, data_img, symb_table, ext_list,
                   curr_word, IC, err_cnt, warn_cnt, err_cnt_1, log>>

(* as_proc_file: the output files, produced only when the scan returned ALL_GOOD *)
Emit ==
    /\ pc = "emit"
    /\ out' = IF status = "ALL_GOOD"
              THEN [ob  |-> create_ob_file(code_img, data_img),
                    ext |-> form_ext_file(ext_list),
                    ent |-> form_ent_file(symb_table)]
              ELSE out
    /\ pc' = "clear"
    /\ UNCHANGED <<drv, curr_file_name>>
    /\ UNCHANGED <<file, fpos, line_num, status, code_img, data_img, symb_table, ext_list,
                   curr_word, IC, err_cnt, warn_cnt, err_cnt_1, log>>

(* as_proc_file: the structures are cleared *)
Clear ==
    /\ pc = "clear"
    /\ symb_table' = clear_symb_table
    /\ code_img' = <<>>
    /\ data_img' = <<>>
    /\ ext_list' = <<>>
    /\ pc' = "done"
    /\ UNCHANGED <<drv, curr_file_name>>
    /\ UNCHANGED <<file, fpos, line_num, status, curr_word, IC, out, err_cnt, warn_cnt,
                   err_cnt_1, log>>

Next == Scan1Line \/ Scan1End \/ Scan2Line \/ Scan2End \/ Emit \/ Clear

Spec == Init /\ [][Next]_vars

SpecExt == InitExt /\ [][Next]_vars

SpecEnt == InitEnt /\ [][Next]_vars

SpecDecl == InitDecl /\ [][Next]_vars

SpecInst == InitWith(Files(InstPool, MaxInstLines)) /\ [][Next]_vars

SpecLex == InitWith(FilesEof(LexPool, MaxLexLines)) /\ [][Next]_vars

----------------------------------------------------------------------------
(* main: the files of the command line, one after the other, and the
   technical failures that end the process *)

(* enum proc_stat: the indicators that shut_down_err returns to the system *)
ALLOC_ERR == 8
PNT_ERR == 12
FILE_OERATION_ERR == 13

(* source files of the command line: one that fills the symbol table, both
   images and the list of externals, one with an error of the second scan,
   one with an error of the first scan *)
MainPool == <<ln_extern_X, ln_jmp_X, ln_A_data, ln.sp_com>>

MainFiles == {FileOf(MainPool, <<1, 2, 3>>, 1), FileOf(MainPool, <<3, 2>>, 1),
              FileOf(MainPool, <<1, 4>>, 1)}

(* what a name of the command line stands for: a source file that can be
   opened, or none *)
ArgFiles ==
    [text : MainFiles, readable : {TRUE}] \cup [text : {<<>>}, readable : {FALSE}]

Args ==
    UNION {{[i \in 1..n |-> [name |-> ToString(i), text |-> a[i].text,
                              readable |-> a[i].readable]] : a \in [1..n -> ArgFiles]}
           : n \in 0..MaxArgs}

InitMain ==
    /\ argv \in Args
    /\ argi = 0
    /\ pc = "main"
    /\ curr_file_name = UNKNOWN_FILE
    /\ exit_code = 0
    /\ done_files = <<>>
    /\ fault = "none"
    /\ file = <<>>
    /\ fpos = 1
    /\ line_num = 0
    /\ status = "ALL_GOOD"
    /\ code_img = <<>>
    /\ data_img = <<>>
    /\ symb_table = intlz_symbt
    /\ ext_list = <<>>
    /\ curr_word = 1
    /\ IC = INITIAL_LOAD_ADSS
    /\ out = [ob |-> NoFile, ext |-> NoFile, ent |-> NoFile]
    /\ err_cnt = 0
    /\ warn_cnt = 0
    /\ err_cnt_1 = 0
    /\ log = <<>>

(* the files as_proc_file has finished, with the one it has just finished *)
FilesDone ==
    IF pc = "done"
    THEN Append(done_files, [name |-> argv[argi].name, out |-> out, status |-> status])
    ELSE done_files

(* what the build can make of strcpy(curr_fname, origin_fname) when malloc
   has returned NULL, which as_proc_file does not test: the process is ended
   by a signal, or the copy goes unnoticed and the process carries on *)
NullCopyOutcomes == {"killed", "unnoticed"}

(* main calls as_proc_file for the next argument: the images, the list and
   the table are new and empty, and the file name is allocated *)
as_proc_file ==
    /\ pc \in {"main", "done"}
    /\ argi < Len(argv)
    /\ argi' = argi + 1
    /\ done_files' = FilesDone
    /\ code_img' = <<>>
    /\ data_img' = <<>>
    /\ ext_list' = <<>>
    /\ symb_table' = intlz_symbt
    /\ out' = [ob |-> NoFile, ext |-> NoFile, ent |-> NoFile]
    /\ \E allocated \in BOOLEAN :
        IF allocated
        THEN pc' = "open" /\ fault' = fault
        ELSE /\ fault' = "alloc_name"
             /\ \E outcome \in NullCopyOutcomes :
                    pc' = IF outcome = "killed" THEN "killed" ELSE "open"
    /\ UNCHANGED <<file, fpos, line_num, status, curr_word, IC, err_cnt, warn_cnt,
                   err_cnt_1, log, argv, curr_file_name, exit_code>>

(* shut_down_err: the process exits with the indicator of the failure *)
shut_down_err(err_indicator, failure) ==
    /\ pc' = "exit"
    /\ exit_code' = err_indicator
    /\ fault' = failure
    /\ UNCHANGED <<file, fpos, line_num, status, code_img, data_img, symb_table, ext_list,
                   curr_word, IC, err_cnt, warn_cnt, err_cnt_1, log, argv, argi,
                   curr_file_name, done_files>>

(* scan_as_src_file opens the source file, gives its name to printerr, and
   both scans start from the first line *)
scan_as_src_file ==
    /\ pc = "open"
    /\ IF ~argv[argi].readable
       THEN shut_down_err(FILE_OERATION_ERR, "open") /\ out' = out
       ELSE /\ file' = argv[argi].text
            /\ curr_file_name' = SourceName(argv[argi].name)
            /\ pc' = "scan1"
            /\ fpos' = 1
            /\ line_num' = 0
            /\ status' = "ALL_GOOD"
            /\ curr_word' = 1
            /\ IC' = INITIAL_LOAD_ADSS
            /\ err_cnt' = 0
            /\ warn_cnt' = 0
            /\ err_cnt_1' = 0
            /\ log' = <<>>
            /\ UNCHANGED <<code_img, data_img, symb_table, ext_list, out, drv>>

(* the line the running scan is about to read needs new memory: a word of an
   image or a symbol in the first scan, a node of the list of externals in
   the second *)
Allocates ==
    /\ get_line(file, fpos).st = "ALL_GOOD"
    /\ \E r \in {get_line(file, fpos)} :
        IF pc = "scan1"
        THEN \E junk \in JunkOf(r.line, "#") :
             \E p \in {IF status # "INP_ERROR"
                       THEN proc_line_1(r.line, PtrTo(code_img), PtrTo(data_img),
                                        symb_table, junk)
                       ELSE proc_line_1(r.line, NULL, NULL, symb_table, junk)} :
                 \/ status # "INP_ERROR" /\ Len(p.code) > Len(code_img)
                 \/ status # "INP_ERROR" /\ Len(p.data) > Len(data_img)
                 \/ p.table # symb_table
        ELSE /\ status # "INP_ERROR"
             /\ \E junk \in JunkOf(r.line, "&") :
                \E p \in {proc_line_2(r.line, PtrTo(curr_word),
                                      Scan2State(curr_word, code_img, IC, ext_list, 0),
                                      PtrTo(ext_list), symb_table, junk)} :
                    Len(p.s.ext) > Len(ext_list)

(* malloc returns NULL to word_list_add, symb_inst or ext_list_add, and the
   scan shuts the program down *)
AllocFail ==
    /\ pc \in {"scan1", "scan2"}
    /\ Allocates
    /\ shut_down_err(ALLOC_ERR, "alloc")
    /\ out' = out

(* scan_as_src_file cannot close the source file after the second scan *)
CloseFail ==
    /\ pc = "scan2"
    /\ get_line(file, fpos).st = "EOF_ENC"
    /\ shut_down_err(FILE_OERATION_ERR, "close")
    /\ out' = out

(* the output files in the order as_proc_file produces them *)
OutNames == <<"ob", "ext", "ent">>

(* the output files when producing file number k fails: the files before it
   are complete, the file itself is as the failure left it *)
OutUpTo(full, k, left) ==
    [f \in {"ob", "ext", "ent"} |->
        IF \E j \in 1..(k - 1) : OutNames[j] = f THEN full[f]
        ELSE IF OutNames[k] = f THEN left ELSE NoFile]

(* an output file cannot be opened, written or closed: what was written
   before stays, and the program shuts down *)
EmitFail ==
    /\ pc = "emit"
    /\ status = "ALL_GOOD"
    /\ \E full \in {[ob  |-> create_ob_file(code_img, data_img),
                      ext |-> form_ext_file(ext_list),
                      ent |-> form_ent_file(symb_table)]} :
       \E k \in 1..3 :
           /\ full[OutNames[k]].exists
           /\ \/ shut_down_err(FILE_OERATION_ERR, "open") /\ out' = OutUpTo(full, k, NoFile)
              \/ /\ shut_down_err(PNT_ERR, "print")
                 /\ \E n \in 0..(Len(full[OutNames[k]].text) - 1) :
                        out' = OutUpTo(full, k,
                                       FileWith(SubSeq(full[OutNames[k]].text, 1, n)))
              \/ /\ shut_down_err(FILE_OERATION_ERR, "close")
                 /\ out' = OutUpTo(full, k, full[OutNames[k]])

(* main returns 0 after the last file, or when no file was named *)
main ==
    /\ pc \in {"main", "done"}
    /\ argi = Len(argv)
    /\ pc' = "exit"
    /\ exit_code' = 0
    /\ done_files' = FilesDone
    /\ UNCHANGED <<file, fpos, line_num, status, code_img, data_img, symb_table, ext_list,
                   curr_word, IC, out, err_cnt, warn_cnt, err_cnt_1, log, argv, argi,
                   curr_file_name, fault>>

NextMain ==
    \/ as_proc_file \/ scan_as_src_file \/ Next
    \/ AllocFail \/ CloseFail \/ EmitFail \/ main

SpecMain == InitMain /\ [][NextMain]_vars

SpecNote == InitWith(Files(NotePool, MaxNoteLines)) /\ [][Next]_vars

SpecSkip == InitWith(Files(SkipPool, MaxSkipLines)) /\ [][Next]_vars

SpecWord == InitWith(Files(WordPool, MaxWordLines)) /\ [][Next]_vars

SpecOb == InitWith(Files(ObPool, MaxObLines)) /\ [][Next]_vars

----------------------------------------------------------------------------
(* Reading the state: what the properties below are stated with.  The source
   statements are read again here, independently of the two scans. *)

FieldOf(mem_word, field_mask) ==
    (mem_word \div Pow2(field_mask.lo)) % Pow2(field_mask.len)

Symbols == TableScan(symb_table, 0)
SymbolSet == Range(Symbols)
Defined(n) == \E y \in SymbolSet : y.name = n
SymbolNamed(n) == CHOOSE y \in SymbolSet : y.name = n
AdssOf(y) == FieldOf(y.rep_word, NON_ARE)

NoOutput == ~out.ob.exists /\ ~out.ext.exists /\ ~out.ent.exists

Count(seq, v) == Cardinality({i \in 1..Len(seq) : seq[i] = v})
SameBag(s, t) == \A v \in Range(s) \cup Range(t) : Count(s, v) = Count(t, v)

(* the lines the first scan has read, in order; the lines of the whole file
   once the first scan is over *)
LinesRead == [i \in 1..Cardinality({k \in 1..Len(log) : log[k].scan = 1}) |-> log[i].line]

(* the history records of one scan *)
LogOf(scan) == {k \in 1..Len(log) : log[k].scan = scan}

RECURSIVE TokensFrom(_, _)
TokensFrom(line, pos) ==
    LET t == get_token(line, pos)
    IN  IF Len(t.word) = 0 THEN <<>> ELSE <<t.word>> \o TokensFrom(line, t.pos)

(* a statement: [has_label, label, key, args]; key is <<>> for an empty line
   or a comment *)
StmtOf(line) ==
    LET toks == IF Len(line) > 0 /\ line[1] = ";" THEN <<>> ELSE TokensFrom(line, 1)
    IN  IF toks = <<>>
        THEN [has_label |-> FALSE, label |-> <<>>, key |-> <<>>, args |-> <<>>]
        ELSE IF toks[1][Len(toks[1])] = ":"
        THEN [has_label |-> TRUE, label |-> SubSeq(toks[1], 1, Len(toks[1]) - 1),
              key |-> IF Len(toks) > 1 THEN toks[2] ELSE <<>>,
              args |-> SubSeq(toks, 3, Len(toks))]
        ELSE [has_label |-> FALSE, label |-> <<>>, key |-> toks[1],
              args |-> SubSeq(toks, 2, Len(toks))]

InstNames == {inst_table[i].op_name : i \in 1..Len(inst_table)}
RegNames == {<<"r", d>> : d \in {"0","1","2","3","4","5","6","7"}}
IsComma(t) == t = <<",">>
NotComma(t) == ~IsComma(t)

IsInst(st) == st.key \in InstNames
IsGuide(st, name) == st.key = <<".">> \o name
Operands(st) == SelectSeq(st.args, NotComma)

(* number of operands before the k-th that take a memory word *)
WordsBefore(ops, k) == Cardinality({j \in 1..(k - 1) : ops[j] \notin RegNames})

(* number of words of a well-formed instruction statement *)
InstWords(line) ==
    LET st == StmtOf(line)
    IN  IF IsInst(st) THEN 1 + WordsBefore(Operands(st), Len(Operands(st)) + 1) ELSE 0

(* address of the first word of the statement of line i, when every line
   before it is a well-formed statement *)
RECURSIVE InstAdss(_, _)
InstAdss(lines, i) ==
    IF i <= 1 THEN INITIAL_LOAD_ADSS ELSE InstAdss(lines, i - 1) + InstWords(lines[i - 1])

IsDirect(t) == t \notin RegNames /\ t[1] \notin {"#", "&"}
IsRelative(t) == t[1] = "&"

ExternNames(lines) ==
    {Operands(StmtOf(lines[i]))[1] :
        i \in {k \in 1..Len(lines) : IsGuide(StmtOf(lines[k]), <<"e","x","t","e","r","n">>)
                                     /\ Len(Operands(StmtOf(lines[k]))) > 0}}

(* the references to external symbols of line i, in the order of the operands *)
LineRefs(lines, i) ==
    LET st == StmtOf(lines[i])
        ops == Operands(st)
        ref(k) == [name |-> ops[k], adss |-> InstAdss(lines, i) + 1 + WordsBefore(ops, k)]
        hit(k) == IsDirect(ops[k]) /\ ops[k] \in ExternNames(lines)
    IN  IF ~IsInst(st) THEN <<>>
        ELSE (IF Len(ops) >= 1 /\ hit(1) THEN <<ref(1)>> ELSE <<>>)
             \o (IF Len(ops) >= 2 /\ hit(2) THEN <<ref(2)>> ELSE <<>>)

(* the references to external symbols of the file, in the order of appearance *)
RECURSIVE ExtRefsFrom(_, _)
ExtRefsFrom(lines, i) ==
    IF i > Len(lines) THEN <<>> ELSE LineRefs(lines, i) \o ExtRefsFrom(lines, i + 1)

ExtRefs == ExtRefsFrom(LinesRead, 1)

(* the lines of a text file *)
RECURSIVE TextLines(_)
TextLines(text) ==
    IF text = <<>> THEN <<>>
    ELSE IF \E i \in 1..Len(text) : text[i] = "\n"
    THEN LET n == CHOOSE i \in 1..Len(text) :
                      text[i] = "\n" /\ \A j \in 1..(i - 1) : text[j] # "\n"
         IN  <<SubSeq(text, 1, n - 1)>> \o TextLines(SubSeq(text, n + 1, Len(text)))
    ELSE <<text>>

RECURSIVE DecValue(_)
DecValue(digits) ==
    IF digits = <<>> THEN 0
    ELSE 10 * DecValue(SubSeq(digits, 1, Len(digits) - 1))
         + (CHOOSE d \in 0..9 : DigitChars[d + 1] = digits[Len(digits)])

(* the [name, adss] pairs of the lines of a .ext or .ent file *)
PairsOf(text) ==
    LET ls == TextLines(text)
    IN  [i \in 1..Len(ls) |->
            [name |-> TokensFrom(ls[i], 1)[1], adss |-> DecValue(TokensFrom(ls[i], 1)[2])]]

----------------------------------------------------------------------------
(* C1: for every input file, if at least one assembly error is reported in
   the first or the second scan (a too long line included), none of the
   three output files is written; if no error is reported, the .ob file is
   written. *)
C1_ErrorsSuppressOutput ==
    /\ err_cnt > 0 => NoOutput
    /\ (pc \in {"clear", "done"} /\ err_cnt = 0) => out.ob.exists
    /\ (pc \notin {"clear", "done"}) => NoOutput

(* the file has been processed, the only errors were reported by the second
   scan, and there is no output file *)
C1_Witness ==
    pc = "done" /\ err_cnt > 0 /\ err_cnt_1 = 0 /\ NoOutput

----------------------------------------------------------------------------
(* C2: in a successfully assembled input, every appearance of an external
   symbol as a direct operand records exactly one (name, address) pair in
   the external symbols' list, and the address is the one of the operand's
   own word: the address of the first word of the instruction + 1 for the
   first operand that takes a word, + 2 for the second. *)
C2_ExtListRecords ==
    (pc = "emit" /\ err_cnt = 0) => SameBag(ext_list, ExtRefs)

(* a successful assembly in which an external symbol is both operands of one
   instruction: it is recorded at the first address + 1 and + 2 *)
C2_Witness ==
    /\ pc = "emit" /\ err_cnt = 0
    /\ [name |-> <<"X">>, adss |-> INITIAL_LOAD_ADSS + 1] \in Range(ext_list)
    /\ [name |-> <<"X">>, adss |-> INITIAL_LOAD_ADSS + 2] \in Range(ext_list)

----------------------------------------------------------------------------
(* C3: the lines of the .ext file are in the order of appearance in the
   source: of two references, the one with the lower operand-word address is
   on the earlier line. *)
C3_ExtFileInSourceOrder ==
    out.ext.exists =>
        LET refs == PairsOf(out.ext.text)
        IN  \A i, j \in 1..Len(refs) : i < j => refs[i].adss < refs[j].adss

----------------------------------------------------------------------------
(* C4: the lines of the .ent file are in the order of declaration in the
   source: of two entry symbols, the one whose label is declared on the
   earlier line is on the earlier line of the file. *)
DeclLine(n) ==
    CHOOSE i \in 1..Len(LinesRead) :
        /\ StmtOf(LinesRead[i]).has_label /\ StmtOf(LinesRead[i]).label = n
        /\ \A j \in 1..(i - 1) :
              ~(StmtOf(LinesRead[j]).has_label /\ StmtOf(LinesRead[j]).label = n)

C4_EntFileInDeclarationOrder ==
    out.ent.exists =>
        LET ents == PairsOf(out.ent.text)
        IN  \A i, j \in 1..Len(ents) :
                i < j => DeclLine(ents[i].name) < DeclLine(ents[j].name)

----------------------------------------------------------------------------
(* More reading of the history of the second scan *)

NLines == Cardinality(LogOf(1))

(* the code image as the step of history record k left it *)
CodeAfter(k) == IF k < Len(log) THEN log[k + 1].code ELSE code_img

Scanned == pc \in {"scan2", "emit", "clear"}

RelInstNames == {<<"j","m","p">>, <<"b","n","e">>, <<"j","s","r">>}

(* an instruction statement whose only operand is a relative one *)
RelInst(st) ==
    st.key \in RelInstNames /\ Len(st.args) = 1 /\ IsRelative(st.args[1])

(* the 21 bits of the two's complement of a distance *)
S21(d) == (d + Pow2(NON_ARE.len)) % Pow2(NON_ARE.len)

(* the relative operand of the line of record k of the second scan is right:
   its word, the one after the first word of the instruction, has ARE = A
   and holds the distance from the instruction to the symbol *)
RelWordRight(k) ==
    LET target == SymbolNamed(Tail(StmtOf(log[k].line).args[1]))
        a == InstAdss(LinesRead, k - NLines)
        w == CodeAfter(k)[a - INITIAL_LOAD_ADSS + 2]
    IN  /\ log[k].errs_to = log[k].errs
        /\ a - INITIAL_LOAD_ADSS + 2 <= Len(CodeAfter(k))
        /\ FieldOf(w, ARE) = ARE_A_set
        /\ FieldOf(w, NON_ARE) = S21(AdssOf(target) - a)

RelTargetGood(k) ==
    LET n == Tail(StmtOf(log[k].line).args[1])
    IN  Defined(n) /\ ~SymbolNamed(n).is_extern

RelLines == {k \in LogOf(2) : log[k].st # "STR_TOO_LONG" /\ RelInst(StmtOf(log[k].line))}

(* C5, as claimed: for every relative operand &S of an accepted instruction
   (the first scan reported nothing) where S is defined and not external,
   after the second scan has processed the line the operand's word has
   ARE = A and holds the 21-bit two's complement of address(S) - address of
   the first word of the instruction; &S with S undefined or external is
   reported as an error and writes nothing. *)
C5_RelativeWordAlways ==
    Scanned =>
        \A k \in RelLines :
            IF RelTargetGood(k)
            THEN err_cnt_1 = 0 => RelWordRight(k)
            ELSE log[k].errs_to = log[k].errs + 1 /\ CodeAfter(k) = log[k].code

(* C5, amended: the same, for the lines before which no error was reported in
   either scan; after an error the second scan leaves the code image alone. *)
C5_RelativeWord ==
    Scanned =>
        \A k \in RelLines :
            IF RelTargetGood(k)
            THEN IF log[k].errs = 0 THEN RelWordRight(k)
                 ELSE CodeAfter(k) = log[k].code
            ELSE log[k].errs_to = log[k].errs + 1 /\ CodeAfter(k) = log[k].code

(* an error-free assembly with a backward relative operand: L is declared at
   100 and used by the instruction at 101, so the word holds -1 *)
C5_Witness ==
    /\ pc = "emit" /\ err_cnt = 0
    /\ \E k \in RelLines : RelTargetGood(k)
    /\ \E i \in 1..Len(code_img) :
          /\ FieldOf(code_img[i], ARE) = ARE_A_set
          /\ FieldOf(code_img[i], NON_ARE) = Pow2(NON_ARE.len) - 1

----------------------------------------------------------------------------
(* C6: in every state of the symbol table the replacement word of a symbol
   has ARE = E exactly when the symbol is external and ARE = R otherwise,
   and the address of an external symbol is 0; the data shift changes the
   address of the symbols of the data image only, and no ARE field. *)
C6_AreOfSymbols ==
    \A y \in SymbolSet :
        /\ FieldOf(y.rep_word, ARE) = IF y.is_extern THEN ARE_E_set ELSE ARE_R_set
        /\ y.is_extern => AdssOf(y) = 0

C6_ShiftFrame ==
    (pc = "scan1" /\ pc' = "scan2") =>
        \A h \in DOMAIN symb_table :
            /\ Len(symb_table'[h]) = Len(symb_table[h])
            /\ \A i \in 1..Len(symb_table[h]) :
                  LET y == symb_table[h][i]
                      z == symb_table'[h][i]
                  IN  /\ z.name = y.name /\ z.is_extern = y.is_extern
                      /\ z.is_data = y.is_data /\ z.is_entry = y.is_entry
                      /\ FieldOf(z.rep_word, ARE) = FieldOf(y.rep_word, ARE)
                      /\ ~y.is_data => z.rep_word = y.rep_word

C6_SymbolWords == []C6_AreOfSymbols /\ [][C6_ShiftFrame]_vars

(* after the shift: an external symbol, and a symbol of the data image that
   the shift moved behind two words of code *)
C6_Witness ==
    /\ pc = "scan2"
    /\ \E y \in SymbolSet : y.is_extern
    /\ \E y \in SymbolSet : y.is_data /\ AdssOf(y) = INITIAL_LOAD_ADSS + 2

----------------------------------------------------------------------------
(* The declarations of the first scan *)

DataGuides == {<<".","d","a","t","a">>, <<".","s","t","r","i","n","g">>}

(* number of words of a well-formed .data or .string statement *)
DataWords(line) ==
    LET st == StmtOf(line)
        quotes == {i \in 1..Len(line) : line[i] = "\""}
        first == CHOOSE i \in quotes : \A j \in quotes : i <= j
        final == CHOOSE i \in quotes : \A j \in quotes : j <= i
    IN  IF st.key = <<".","d","a","t","a">> THEN Len(Operands(st))
        ELSE IF st.key = <<".","s","t","r","i","n","g">> THEN final - first
        ELSE 0

RECURSIVE DataOffset(_, _)
DataOffset(lines, i) ==
    IF i <= 1 THEN 0 ELSE DataOffset(lines, i - 1) + DataWords(lines[i - 1])

(* the line of record k declares the name n *)
Declares(k, n) ==
    LET st == StmtOf(log[k].line)
    IN  /\ log[k].st # "STR_TOO_LONG"
        /\ \/ st.has_label /\ st.label = n /\ (IsInst(st) \/ st.key \in DataGuides)
           \/ IsGuide(st, <<"e","x","t","e","r","n">>) /\ Len(st.args) > 0 /\ st.args[1] = n

(* the records of the first scan whose line is the first to declare its label,
   a legal name, with a statement of the given kind *)
FirstDecls(kind(_)) ==
    {k \in LogOf(1) :
        LET st == StmtOf(log[k].line)
        IN  /\ log[k].st # "STR_TOO_LONG"
            /\ st.has_label /\ kind(st)
            /\ is_legal_symb(st.label) = "VALID"
            /\ \A j \in 1..(k - 1) : ~Declares(j, st.label)}

IsDataStmt(st) == st.key \in DataGuides

LabelOf(k) == StmtOf(log[k].line).label

(* C7, as claimed: after the shift that ends the first scan, for every input,
   a symbol of the data image has address = number of words of the .data and
   .string statements before its declaration + size of the code image + 100. *)
C7_DataAddressAlways ==
    Scanned =>
        \A k \in FirstDecls(IsDataStmt) :
            /\ Defined(LabelOf(k)) /\ SymbolNamed(LabelOf(k)).is_data
            /\ AdssOf(SymbolNamed(LabelOf(k)))
                 = DataOffset(LinesRead, k) + Len(code_img) + INITIAL_LOAD_ADSS

(* C7, amended: so it is for the symbols declared before any error of the
   first scan; a symbol declared after one has address = size of the code
   image + 100, whatever precedes it. *)
C7_DataAddress ==
    Scanned =>
        \A k \in FirstDecls(IsDataStmt) :
            /\ Defined(LabelOf(k)) /\ SymbolNamed(LabelOf(k)).is_data
            /\ AdssOf(SymbolNamed(LabelOf(k)))
                 = (IF log[k].good THEN DataOffset(LinesRead, k) ELSE 0)
                   + Len(code_img) + INITIAL_LOAD_ADSS

(* after the shift: S declared behind two words of data, with two words of code *)
C7_Witness ==
    /\ pc = "scan2" /\ err_cnt = 0 /\ Len(code_img) = 2 /\ Len(data_img) = 4
    /\ Defined(<<"S">>) /\ SymbolNamed(<<"S">>).is_data
    /\ AdssOf(SymbolNamed(<<"S">>)) = INITIAL_LOAD_ADSS + 4

----------------------------------------------------------------------------
(* C8, as claimed: for every input, a label declared on an instruction
   statement is installed by the first scan as a symbol that is neither
   external nor of the data image, with address = size of the code image
   before the statement + 100. *)
C8_InstLabelAlways ==
    pc \in {"scan1", "scan2", "emit", "clear"} =>
        \A k \in FirstDecls(IsInst) :
            /\ Defined(LabelOf(k))
            /\ ~SymbolNamed(LabelOf(k)).is_extern /\ ~SymbolNamed(LabelOf(k)).is_data
            /\ AdssOf(SymbolNamed(LabelOf(k))) = Len(log[k].code) + INITIAL_LOAD_ADSS

(* C8, amended: so it is when no error was reported before the statement; a
   label declared after an error of the first scan is installed with
   address 0. *)
C8_InstLabel ==
    pc \in {"scan1", "scan2", "emit", "clear"} =>
        \A k \in FirstDecls(IsInst) :
            /\ Defined(LabelOf(k))
            /\ ~SymbolNamed(LabelOf(k)).is_extern /\ ~SymbolNamed(LabelOf(k)).is_data
            /\ AdssOf(SymbolNamed(LabelOf(k)))
                 = IF log[k].good THEN Len(log[k].code) + INITIAL_LOAD_ADSS ELSE 0

(* the first scan has installed L behind two words of code *)
C8_Witness ==
    /\ pc = "scan1" /\ err_cnt = 0 /\ Len(log) = 2
    /\ log[2].line = ln_L_stop /\ Len(log[2].code) = 2
    /\ Defined(<<"L">>) /\ AdssOf(SymbolNamed(<<"L">>)) = INITIAL_LOAD_ADSS + 2

----------------------------------------------------------------------------
(* The .entry statements the second scan has processed *)

EntryLines ==
    {k \in LogOf(2) : /\ log[k].st # "STR_TOO_LONG"
                      /\ IsGuide(StmtOf(log[k].line), <<"e","n","t","r","y">>)
                      /\ Len(StmtOf(log[k].line).args) > 0}

EntryName(k) == StmtOf(log[k].line).args[1]

(* C9: after the second scan the entry flag of a symbol is set exactly when
   some .entry line names it and the symbol is defined in the file, on an
   earlier or a later line, and is not external; a .entry that names an
   undefined or an external symbol is an error and sets no flag; more tokens
   after the name are an error. *)
C9_EntryFlags ==
    pc \in {"emit", "clear"} =>
        /\ \A y \in SymbolSet :
              y.is_entry <=> (~y.is_extern /\ \E k \in EntryLines : EntryName(k) = y.name)
        /\ \A k \in EntryLines :
              /\ (~Defined(EntryName(k)) \/ SymbolNamed(EntryName(k)).is_extern)
                    => log[k].st = "INP_ERROR" /\ log[k].errs_to = log[k].errs + 1
              /\ Len(StmtOf(log[k].line).args) > 1
                    => log[k].st = "INP_ERROR" /\ log[k].errs_to = log[k].errs + 1

(* L is named by a .entry on the first line, is declared on a later line, and
   has its flag set; another .entry named a symbol that is not defined *)
C9_Witness ==
    /\ pc = "emit"
    /\ Len(log) > 0 /\ log[1].line = ln_entry_L
    /\ Defined(<<"L">>) /\ SymbolNamed(<<"L">>).is_entry
    /\ \E k \in EntryLines : ~Defined(EntryName(k)) /\ log[k].st = "INP_ERROR"

----------------------------------------------------------------------------
(* C10: when the assembly of a file succeeds, the .ext file is created
   exactly when the external symbols' list is not empty, the .ent file
   exactly when some symbol has its entry flag set, and the .ob file always. *)
C10_OutputFiles ==
    (pc = "clear" /\ err_cnt = 0) =>
        /\ out.ob.exists
        /\ out.ext.exists <=> ext_list # <<>>
        /\ out.ent.exists <=> \E y \in SymbolSet : y.is_entry

(* a success with an external symbol that is declared and never used, and an
   entry symbol: a .ob and a .ent file, no .ext file *)
C10_Witness ==
    /\ pc = "clear" /\ err_cnt = 0
    /\ \E y \in SymbolSet : y.is_extern
    /\ out.ob.exists /\ out.ent.exists /\ ~out.ext.exists

----------------------------------------------------------------------------
(* The declarations of a name that is already in the symbol table *)

(* the statement of the line declares the name n: a label of an instruction or
   of a .data or .string statement, or the name of a .extern statement *)
DeclaresName(st, n) ==
    \/ st.has_label /\ st.label = n /\ (IsInst(st) \/ st.key \in DataGuides)
    \/ IsGuide(st, <<"e","x","t","e","r","n">>) /\ Len(st.args) > 0 /\ st.args[1] = n

C11_OneSymbolPerName ==
    \A h \in DOMAIN symb_table : \A i, j \in 1..Len(symb_table[h]) :
        symb_table[h][i].name = symb_table[h][j].name => i = j

(* a step of the first scan on a line that declares a name of the table reports
   an error and leaves the table as it was *)
C11_DuplicateStep ==
    (pc = "scan1" /\ pc' = "scan1") =>
        \A y \in SymbolSet :
            DeclaresName(StmtOf(log'[Len(log')].line), y.name) =>
                /\ log'[Len(log')].st = "INP_ERROR"
                /\ err_cnt' = err_cnt + 1
                /\ status' = "INP_ERROR"
                /\ symb_table' = symb_table

(* C11: in every reachable state the symbol table holds at most one symbol per
   name; a declaration (a label or a .extern) of a name that is already in
   the table is reported as an error and leaves the symbol as it was: a label
   after a .extern, a .extern after a label, a repeated .extern. *)
C11_Duplicates == []C11_OneSymbolPerName /\ [][C11_DuplicateStep]_vars

(* the first scan has read a .extern of A, a label A and a .extern of A again:
   two errors, and A is still the external symbol of the first line *)
C11_Witness ==
    /\ pc = "scan1" /\ Len(log) = 3 /\ err_cnt = 2
    /\ log[1].line = ln.extern_A /\ log[2].line = ln_A_stop /\ log[3].line = ln.extern_A
    /\ Defined(<<"A">>) /\ SymbolNamed(<<"A">>).is_extern
    /\ Cardinality(SymbolSet) = 1

----------------------------------------------------------------------------
(* The instruction statements the first scan has read *)

(* the addressing method of an operand, read from its text *)
ModeOf(t) ==
    IF t[1] = "#" THEN imediate_a
    ELSE IF t \in RegNames THEN direct_reg_a
    ELSE IF t[1] = "&" THEN relative_a
    ELSE direct_a

DescOf(st) == inst_table[CHOOSE i \in 1..Len(inst_table) : inst_table[i].op_name = st.key]

(* the records of the first scan whose line is an instruction statement *)
InstLines ==
    {k \in LogOf(1) : log[k].st # "STR_TOO_LONG" /\ IsInst(StmtOf(log[k].line))}

Accepted(k) == log[k].st = "ALL_GOOD" /\ log[k].errs_to = log[k].errs

(* the first word of the instruction of record k, once it is in the image *)
FirstWord(k) == CodeAfter(k)[Len(log[k].code) + 1]

(* the operands of the statement are as many as the instruction takes, each
   with an addressing method the instruction permits in its slot *)
OperandsPermitted(st) ==
    LET d == DescOf(st)
        ops == Operands(st)
    IN  /\ Len(ops) = d.opnd_num
        /\ d.opnd_num = 1 => ModeOf(ops[1]) \in d.des
        /\ d.opnd_num = 2 => ModeOf(ops[1]) \in d.src /\ ModeOf(ops[2]) \in d.des

(* the fields of a first word are a combination of the table; the field of
   the method of a slot without an operand (rts and stop have none) is 0,
   the number of the immediate method *)
WordPermitted(w) ==
    /\ \E i \in 1..Len(inst_table) :
          LET d == inst_table[i]
          IN  /\ FieldOf(w, OPCODE) = d.op_code /\ FieldOf(w, FUNCT) = d.funct
              /\ IF d.opnd_num >= 1 THEN FieldOf(w, DEST_ADSS) \in d.des
                                     ELSE FieldOf(w, DEST_ADSS) = 0
              /\ IF d.opnd_num = 2 THEN FieldOf(w, SRC_ADSS) \in d.src
                                    ELSE FieldOf(w, SRC_ADSS) = 0
    /\ FieldOf(w, DEST_ADSS) = relative_a => FieldOf(w, OPCODE) = 9
    /\ FieldOf(w, SRC_ADSS) # relative_a
    /\ (FieldOf(w, DEST_ADSS) = imediate_a /\ FieldOf(w, OPCODE) \notin {14, 15})
            => FieldOf(w, OPCODE) \in {1, 13}
    /\ FieldOf(w, OPCODE) = 4 => FieldOf(w, SRC_ADSS) = direct_a

(* C12: the first scan accepts an instruction statement only if the number of
   its operands is the one of the instruction and the addressing method of
   each operand is permitted for its slot; so the first word of every
   instruction of the code image carries a combination of operation code,
   function and addressing methods of the table (relative only as the
   destination of jmp, bne, jsr; immediate destination only for cmp and prn;
   the source of lea only direct). *)
C12_OperandsMatch ==
    \A k \in InstLines :
        Accepted(k) =>
            /\ OperandsPermitted(StmtOf(log[k].line))
            /\ log[k].good => WordPermitted(FirstWord(k))

(* the first scan has accepted a jmp with a relative operand and rejected a
   clr with one *)
C12_Witness ==
    /\ pc = "scan2" /\ Len(log) = 2
    /\ log[1].line = ln.jmp_rel_A /\ Accepted(1)
    /\ FieldOf(code_img[1], DEST_ADSS) = relative_a
    /\ log[2].line = ln.clr_rel_A /\ ~Accepted(2)

----------------------------------------------------------------------------
(* the register field of a slot of the statement: the index of the register,
   0 when the operand is not a register or the slot is empty *)
RegOf(ops, k) ==
    IF k >= 1 /\ k <= Len(ops) /\ ops[k] \in RegNames
    THEN CHOOSE r \in 0..7 : DigitChars[r + 1] = ops[k][2]
    ELSE 0

(* C13: an accepted instruction statement appends to the code image one first
   word and one more word for each immediate, direct or relative operand,
   none for a register operand, also when both operands are registers;
   mov r3, r5 yields one word with opcode 0, funct 0, source method 3,
   source register 3, destination method 3, destination register 5 and
   ARE = A; the register field of an operand that is not a register, or of a
   slot without an operand, is 0. *)
C13_InstructionWords ==
    \A k \in InstLines :
        (Accepted(k) /\ log[k].good) =>
            LET ops == Operands(StmtOf(log[k].line))
                w == FirstWord(k)
            IN  /\ Len(CodeAfter(k)) = Len(log[k].code) + InstWords(log[k].line)
                /\ SubSeq(CodeAfter(k), 1, Len(log[k].code)) = log[k].code
                /\ FieldOf(w, ARE) = ARE_A_set
                /\ FieldOf(w, SRC_REG) = RegOf(ops, Len(ops) - 1)
                /\ FieldOf(w, DEST_REG) = RegOf(ops, Len(ops))
                /\ log[k].line = ln.mov_r3_r5 =>
                      /\ Len(CodeAfter(k)) = Len(log[k].code) + 1
                      /\ w = 4 + 5 * 256 + 3 * 2048 + 3 * 8192 + 3 * 65536

(* the first scan has read mov r3, r5 and lea A, r1: one word, then two *)
C13_Witness ==
    /\ pc = "scan2" /\ Len(log) = 2 /\ err_cnt = 0
    /\ log[1].line = ln.mov_r3_r5 /\ log[2].line = ln.lea_A_r1
    /\ Len(code_img) = 3
    /\ FieldOf(code_img[1], SRC_REG) = 3 /\ FieldOf(code_img[1], DEST_REG) = 5

----------------------------------------------------------------------------
(* The lines of the .ob file *)

ObLines == TextLines(out.ob.text)

(* line i of the .ob file is the line of a word at the address a *)
WordLineAt(i, a) ==
    /\ i <= Len(ObLines)
    /\ Len(TokensFrom(ObLines[i], 1)) = 2
    /\ DecValue(TokensFrom(ObLines[i], 1)[1]) = a

Emitted == pc = "clear" /\ out.ob.exists

(* C14, as claimed: in the .ob file an empty line separates the lines of the
   code from the lines of the data: after the line of the last word of the
   code there is one empty line before the line of the first word of the
   data. *)
C14_BlankLine ==
    (Emitted /\ code_img # <<>> /\ data_img # <<>>) =>
        /\ Len(ObLines) = 1 + Len(code_img) + 1 + Len(data_img)
        /\ ObLines[1 + Len(code_img) + 1] = <<>>
        /\ WordLineAt(1 + Len(code_img) + 2, INITIAL_LOAD_ADSS + Len(code_img))

(* C14, amended: one new-line character separates the two images, so the line
   of the first word of the data follows the line of the last word of the
   code with no empty line between them; only when the code image is empty
   is there an empty line, the one after the header. *)
C14_NoBlankLine ==
    (Emitted /\ data_img # <<>>) =>
        IF code_img # <<>>
        THEN /\ Len(ObLines) = 1 + Len(code_img) + Len(data_img)
             /\ \A i \in 1..Len(code_img) : WordLineAt(1 + i, INITIAL_LOAD_ADSS + i - 1)
             /\ \A j \in 1..Len(data_img) :
                   WordLineAt(1 + Len(code_img) + j, INITIAL_LOAD_ADSS + Len(code_img) + j - 1)
        ELSE /\ Len(ObLines) = 2 + Len(data_img)
             /\ ObLines[2] = <<>>
             /\ \A j \in 1..Len(data_img) : WordLineAt(2 + j, INITIAL_LOAD_ADSS + j - 1)

(* a .ob file of one word of code and one of data: three lines *)
C14_Witness ==
    /\ Emitted /\ Len(code_img) = 1 /\ Len(data_img) = 1
    /\ Len(ObLines) = 3
    /\ WordLineAt(2, INITIAL_LOAD_ADSS) /\ WordLineAt(3, INITIAL_LOAD_ADSS + 1)

----------------------------------------------------------------------------
(* the source file is the one line, ended by a new-line character *)
FileIs(line) == file = line \o <<"\n">>

(* the word of line i of the .ob file, as it is printed *)
WordText(i) == TokensFrom(ObLines[i], 1)[2]

(* C15, as claimed: none of the three output files ends with a new-line
   character after its last line, for every input that is assembled without
   an error, the ones with an empty data image or an empty code image
   included. *)
C15_NoTrailingNewline ==
    Emitted =>
        /\ out.ob.text[Len(out.ob.text)] # "\n"
        /\ out.ext.exists => out.ext.text[Len(out.ext.text)] # "\n"
        /\ out.ent.exists => out.ent.text[Len(out.ent.text)] # "\n"

----------------------------------------------------------------------------
(* C16, as claimed: the assembly of the single line stop yields a code image
   of one word, an empty data image and one line of code, 0000100 3c0000. *)
C16_StopLineZeroAre ==
    (Emitted /\ FileIs(ln.stop)) =>
        ObLines = << <<"1"," ","0">>,
                     <<"0","0","0","0","1","0","0"," ","3","c","0","0","0","0">> >>

(* C16, amended: the line of the word is 0000100 3c0004: the operation code
   15 in the bits 18 to 23 and ARE = A, the value 4, in the bits 0 to 2. *)
C16_StopLine ==
    (Emitted /\ FileIs(ln.stop)) =>
        /\ Len(code_img) = 1 /\ Len(data_img) = 0
        /\ ObLines = << <<"1"," ","0">>,
                        <<"0","0","0","0","1","0","0"," ","3","c","0","0","0","4">> >>

(* the single line stop has been assembled and the .ob file written *)
C16_Witness ==
    /\ Emitted /\ FileIs(ln.stop)
    /\ Len(ObLines) = 2
    /\ FieldOf(code_img[1], OPCODE) = 15 /\ FieldOf(code_img[1], ARE) = ARE_A_set

----------------------------------------------------------------------------
(* C17: a value of a .data statement is stored as its word of 24 bits in
   two's complement: the limits -8388608 and 8388607 are printed as 800000
   and 7fffff, and -1 as ffffff. *)
C17_DataLimits ==
    (Emitted /\ FileIs(ln.data_lim)) =>
        /\ Len(data_img) = 3
        /\ WordText(Len(ObLines) - 2) = <<"8","0","0","0","0","0">>
        /\ WordText(Len(ObLines) - 1) = <<"7","f","f","f","f","f">>
        /\ WordText(Len(ObLines)) = <<"f","f","f","f","f","f">>

----------------------------------------------------------------------------
(* The immediate operands of the instruction statements *)

IsImmediate(t) == t[1] = "#"

(* the number an immediate operand denotes, read from its text *)
ImmediateOf(t) ==
    IF t[2] = "-" THEN 0 - DecValue(SubSeq(t, 3, Len(t))) ELSE DecValue(SubSeq(t, 2, Len(t)))

(* a field of 21 bits read as a number in two's complement *)
Signed21(v) == IF v >= Pow2(NON_ARE.len - 1) THEN v - Pow2(NON_ARE.len) ELSE v

(* the word of operand j of the instruction of record k *)
OperandWord(k, j) ==
    CodeAfter(k)[Len(log[k].code) + 1 + WordsBefore(Operands(StmtOf(log[k].line)), j) + 1]

(* C18: for every immediate operand #N the word of the operand has ARE = A
   and its other 21 bits are N in two's complement, so that every N from
   -1048576 to 1048575 is recovered by reading the field as a signed number
   of 21 bits. *)
C18_ImmediateRecovered ==
    \A k \in InstLines :
        (Accepted(k) /\ log[k].good) =>
            LET ops == Operands(StmtOf(log[k].line))
            IN  \A j \in 1..Len(ops) :
                    IsImmediate(ops[j]) =>
                        /\ FieldOf(OperandWord(k, j), ARE) = ARE_A_set
                        /\ Signed21(FieldOf(OperandWord(k, j), NON_ARE)) = ImmediateOf(ops[j])

----------------------------------------------------------------------------
(* The lines of the source file, as the characters between its new-lines *)

(* the position of the new-line character that ends the line that starts at
   p, one more than the length of the file when the end of the file ends it *)
LineEnd(p) ==
    CHOOSE e \in p..(Len(file) + 1) :
        /\ e <= Len(file) => file[e] = "\n"
        /\ \A i \in p..(e - 1) : file[i] # "\n"

(* a scan reads a line: it gets the whole line when the line has at most 80
   characters and STR_TOO_LONG when it has more, and the next line is read
   from the character after the new-line *)
C19_ReadStep ==
    (Len(log') = Len(log) + 1) =>
        LET e == LineEnd(fpos)
            read == log'[Len(log')]
        IN  /\ IF e - fpos <= MAX_LINE_LEN
               THEN read.st # "STR_TOO_LONG" /\ read.line = SubSeq(file, fpos, e - 1)
               ELSE read.st = "STR_TOO_LONG"
            /\ fpos' = IF e <= Len(file) THEN e + 1 ELSE e

(* C19: the reader of lines returns the whole line for every line of at most
   80 characters, ended by a new-line or by the end of the file, and too
   long for every line of 81 characters or more; after either the next read
   starts at the first character after the new-line of the line, so no
   character of a too long line gets into the next line and no character of
   the next line is lost. *)
C19_LineReader == [][C19_ReadStep]_vars

(* the first scan has read a line of 83 characters as too long and then the
   line of 80 characters that follows it, whole, ended by the end of the file *)
C19_Witness ==
    /\ pc = "scan1" /\ Len(log) = 2
    /\ file = ln.stop_83 \o <<"\n">> \o ln.stop_80
    /\ log[1].st = "STR_TOO_LONG"
    /\ log[2].st = "ALL_GOOD" /\ log[2].line = ln.stop_80

----------------------------------------------------------------------------
(* The names of the labels *)

GuideNames ==
    {<<"d","a","t","a">>, <<"s","t","r","i","n","g">>, <<"e","n","t","r","y">>,
     <<"e","x","t","e","r","n">>}

Letters == UpperSet \cup LowerSet

(* a name that is not empty, starts with a letter, holds letters and digits
   only, has at most 31 characters and is no name of an instruction, of a
   guidance statement or of a register *)
LegalName(n) ==
    /\ Len(n) > 0
    /\ n[1] \in Letters
    /\ \A i \in 1..Len(n) : n[i] \in Letters \cup DigitSet
    /\ Len(n) <= MAX_SYMB_LEN
    /\ n \notin InstNames /\ n \notin GuideNames /\ n \notin RegNames

(* the records of the first scan whose line is a stop statement with a label
   that no line before it has *)
LabelledStops ==
    {k \in LogOf(1) :
        LET st == StmtOf(log[k].line)
        IN  /\ log[k].st # "STR_TOO_LONG"
            /\ st.has_label /\ st.key = <<"s","t","o","p">> /\ st.args = <<>>
            /\ \A j \in 1..(k - 1) : StmtOf(log[j].line).label # st.label}

(* C20: the name of a symbol is accepted exactly when it is not empty, starts
   with a letter, holds letters and digits only, has at most 31 characters
   and is not the name of an instruction, of a guidance statement or of a
   register; a name of 31 letters and digits is accepted, one of 32 is
   rejected. *)
C20_LegalNames ==
    pc \in {"scan1", "scan2", "emit", "clear"} =>
        \A k \in LabelledStops :
            /\ Accepted(k) <=> LegalName(LabelOf(k))
            /\ Defined(LabelOf(k)) <=> LegalName(LabelOf(k))

(* the first scan has accepted a label of 31 characters and rejected one of
   32 characters *)
C20_Witness ==
    /\ pc = "scan2" /\ Len(log) = 2 /\ err_cnt = 1
    /\ log[1].line = ln.name_31 /\ Accepted(1) /\ Defined(LabelOf(1))
    /\ Len(LabelOf(1)) = MAX_SYMB_LEN
    /\ log[2].line = ln.name_32 /\ ~Accepted(2) /\ ~Defined(LabelOf(2))

----------------------------------------------------------------------------
(* Comments *)

(* the line a step of a scan has read *)
LineRead == log'[Len(log')].line

ReadStep == Len(log') = Len(log) + 1

(* the first character of the line that is no blank is a ';', and it is not
   the first character of the line *)
BlankThenSemicolon(line) ==
    /\ Len(line) > 1 /\ isspace(line[1])
    /\ \E i \in 2..Len(line) : line[i] = ";" /\ \A j \in 1..(i - 1) : isspace(line[j])

(* a step of either scan on a line whose first character is ';' changes
   nothing but the position in the file *)
C21_CommentStep ==
    (ReadStep /\ Len(LineRead) > 0 /\ LineRead[1] = ";") =>
        /\ log'[Len(log')].st = "ALL_GOOD"
        /\ UNCHANGED <<status, code_img, data_img, symb_table, ext_list, curr_word, IC,
                       err_cnt, warn_cnt>>

(* a step of the first scan on a line with blanks before the ';' processes
   the line as a statement, which is an error *)
C21_NoCommentStep ==
    (ReadStep /\ pc = "scan1" /\ BlankThenSemicolon(LineRead)) =>
        /\ log'[Len(log')].st = "INP_ERROR"
        /\ err_cnt' = err_cnt + 1
        /\ status' = "INP_ERROR"

(* C21: a line is skipped as a comment, by both scans alike, exactly when its
   first character is ';'; a line with blanks before the ';' is no comment:
   it is processed as a statement, and reported as an error by the first
   scan. *)
C21_Comments == [][C21_CommentStep /\ C21_NoCommentStep]_vars

(* both scans have skipped the comment of the first line, and the first scan
   has reported the second line, the same text behind a blank *)
C21_Witness ==
    /\ pc = "emit" /\ Len(log) = 4
    /\ log[1].line = ln.com_A_data /\ log[1].errs_to = 0
    /\ log[2].line = ln.sp_com_A /\ log[2].errs_to = 1
    /\ log[3].line = ln.com_A_data /\ log[3].st = "ALL_GOOD"
    /\ ~Defined(<<"A">>) /\ data_img = <<>>

----------------------------------------------------------------------------
(* Labels that are ignored *)

(* the statement has a label before a .extern or a .entry statement, or on a
   line with nothing else *)
IgnoredLabel(st) ==
    /\ st.has_label
    /\ \/ st.key = <<>>
       \/ IsGuide(st, <<"e","x","t","e","r","n">>)
       \/ IsGuide(st, <<"e","n","t","r","y">>)

(* the step of a scan that prints the warning for the label of the line: the
   first scan for a label alone and before .extern, the second before .entry *)
WarningDue(st) ==
    IF IsGuide(st, <<"e","n","t","r","y">>) THEN pc = "scan2" ELSE pc = "scan1"

(* a step on a line with such a label: the label is not installed, and the
   warning is counted by the scan that reports it; a label alone on its line
   is never an error *)
C22_LabelStep ==
    (ReadStep /\ IgnoredLabel(StmtOf(LineRead))) =>
        LET st == StmtOf(LineRead)
            named == Len(st.args) > 0 /\ st.args[1] = st.label
            has(table) == symb_lookup(table, st.label).i # 0
        IN  /\ ~named => (has(symb_table') <=> has(symb_table))
            /\ warn_cnt' = warn_cnt + (IF WarningDue(st) THEN 1 ELSE 0)
            /\ st.key = <<>> => err_cnt' = err_cnt /\ status' = status

(* the output files are written when no error was reported, whatever the
   number of warnings *)
C22_Emission ==
    (pc \in {"clear", "done"} /\ err_cnt = 0) => out.ob.exists

(* C22: a label before .extern or .entry, or on a line with nothing else,
   produces a warning only: the label is not installed in the symbol table,
   so that a later declaration of the name is no duplicate, and when there
   is no error the output files are written. *)
C22_IgnoredLabels == []C22_Emission /\ [][C22_LabelStep]_vars

(* A was a label before .extern and alone on a line, then the label of a
   stop: two warnings, no error, A is the symbol of the stop, and the .ob
   file is written *)
C22_Witness ==
    /\ pc = "clear" /\ err_cnt = 0 /\ warn_cnt = 2
    /\ Len(log) = 6
    /\ log[1].line = ln.A_extern_B /\ log[2].line = ln.A_only /\ log[3].line = ln_A_stop
    /\ Defined(<<"A">>) /\ ~SymbolNamed(<<"A">>).is_extern
    /\ out.ob.exists

----------------------------------------------------------------------------
(* Technical failures *)

(* the indicator that belongs to a technical failure *)
IndicatorOf(failure) ==
    CASE failure \in {"open", "close"} -> FILE_OERATION_ERR
      [] failure = "print" -> PNT_ERR
      [] failure \in {"alloc", "alloc_name"} -> ALLOC_ERR

(* the process has ended *)
Ended == pc \in {"exit", "killed"}

(* once a failure has occurred the process has exited with its indicator *)
C23_Exited ==
    fault # "none" => pc = "exit" /\ exit_code # 0 /\ exit_code = IndicatorOf(fault)

(* the step in which a failure occurs leaves the files written for the
   earlier arguments as they are, and no step follows the end of the process *)
C23_FailureStep ==
    /\ fault' # fault => FilesDone' = FilesDone /\ argi' \in {argi, argi + 1}
    /\ Ended => UNCHANGED vars

(* C23: a technical failure (a source file that cannot be opened or closed,
   an output file that cannot be opened, written or closed, an allocation
   that fails) ends the process at once with the indicator of the failure,
   which is not 0: no step follows, no later file is processed, and the
   output files of the earlier files stay. *)
C23_TechnicalFailure == []C23_Exited /\ [][C23_FailureStep]_vars

(* the failures of the scans and of the output files, which the code tests:
   the process has exited with the indicator *)
C23_TestedFailures ==
    fault \in {"open", "close", "print", "alloc"} =>
        /\ pc = "exit"
        /\ exit_code = IndicatorOf(fault)
        /\ exit_code \in {ALLOC_ERR, PNT_ERR, FILE_OERATION_ERR}

----------------------------------------------------------------------------
(* The files of the command line *)

(* the first scan of the file in process is about to read its first line *)
Scan1Starts == pc = "scan1" /\ line_num = 0

C24_EmptyAtStart ==
    Scan1Starts =>
        /\ symb_table = intlz_symbt /\ Symbols = <<>>
        /\ code_img = <<>> /\ data_img = <<>> /\ ext_list = <<>>

C24_FileName ==
    /\ pc \in {"scan1", "scan2"} => curr_file_name = SourceName(argv[argi].name)
    /\ (pc \in {"main", "open", "emit", "clear", "done"} \/ (pc = "exit" /\ fault = "none"))
           => curr_file_name = UNKNOWN_FILE

(* C24: whatever files the command line names, when the first scan of a file
   starts the symbol table, both images and the list of externals are empty,
   whether the earlier files were assembled or had errors; printerr has the
   name of the file during its two scans and the default name before and
   after them. *)
C24_Independent == C24_EmptyAtStart /\ C24_FileName

(* the first scan of the second file starts, after a first file with an
   error that had filled the table and both images *)
C24_Witness ==
    /\ Scan1Starts /\ argi = 2 /\ Len(done_files) = 1
    /\ done_files[1].status = "INP_ERROR"
    /\ argv[1].text = FileOf(MainPool, <<3, 2>>, 1)
    /\ curr_file_name = SourceName("2")

----------------------------------------------------------------------------
(* The second scan after an error of the first *)

(* the first operand of the instruction is a name the symbol table does not
   hold, or a relative operand whose symbol is undefined or external *)
BadReference(st) ==
    /\ IsInst(st) /\ Len(Operands(st)) > 0
    /\ LET t == Operands(st)[1]
       IN  \/ IsDirect(t) /\ ~Defined(t)
           \/ /\ IsRelative(t)
              /\ ~Defined(Tail(t)) \/ SymbolNamed(Tail(t)).is_extern

(* the statement is a .entry of a name the symbol table does not hold *)
BadEntry(st) ==
    IsGuide(st, <<"e","n","t","r","y">>) /\ Len(st.args) = 1 /\ ~Defined(st.args[1])

(* a step of the second scan after an error of the first: the line is
   checked and its error reported, the code image and the list of externals
   stay as they are *)
C25_Scan2Step ==
    (ReadStep /\ pc = "scan2" /\ err_cnt_1 > 0) =>
        /\ code_img' = code_img
        /\ ext_list' = ext_list
        /\ (BadReference(StmtOf(LineRead)) \/ BadEntry(StmtOf(LineRead)))
               => err_cnt' = err_cnt + 1 /\ log'[Len(log')].st = "INP_ERROR"

(* the second scan has read every line the first has *)
C25_AllLines ==
    (pc \in {"emit", "clear", "done"} /\ err_cnt_1 > 0) => Cardinality(LogOf(2)) = NLines

(* C25: when the first scan reported an error the second scan still reads
   and checks every line, and reports the undefined symbols, the relative
   operands that are external and the .entry statements of undefined
   symbols; during that scan no word of the code image is written and
   nothing is added to the list of externals. *)
C25_CheckOnly == []C25_AllLines /\ [][C25_Scan2Step]_vars

(* '.extern X', 'jmp X' and a line the first scan reports: the second scan
   has read the three lines, the word of X is still the empty word of the
   first scan and the list of externals is empty *)
C25_Witness ==
    /\ pc = "emit" /\ err_cnt_1 = 1 /\ Len(log) = 6
    /\ log[1].line = ln_extern_X /\ log[2].line = ln_jmp_X /\ log[3].line = ln.sp_com
    /\ Len(code_img) = 2 /\ code_img[2] = 0
    /\ ext_list = <<>>

(* 'jmp L', a line the first scan reports, and '.entry L': the second scan
   reports the undefined L twice *)
C25_Reported ==
    /\ pc = "emit" /\ err_cnt_1 = 1 /\ err_cnt = 3
    /\ log[1].line = ln_jmp_L /\ log[2].line = ln.sp_com /\ log[3].line = ln_entry_L

----------------------------------------------------------------------------
(* The ARE field of the words of the code image *)

(* both scans have ended without an error *)
Assembled == pc = "emit" /\ status = "ALL_GOOD"

(* index in the code image of the first word of the statement of line k *)
FirstIndex(k) == InstAdss(LinesRead, k) - INITIAL_LOAD_ADSS + 1

(* index in the code image of the word of operand j of the statement of line k *)
OperandIndex(k, j) == FirstIndex(k) + WordsBefore(Operands(StmtOf(LinesRead[k])), j) + 1

(* the lines of the file that are instruction statements *)
InstStmts == {k \in 1..NLines : IsInst(StmtOf(LinesRead[k]))}

(* the operands of the statement of line k that take a word *)
WordOperands(k) ==
    {j \in 1..Len(Operands(StmtOf(LinesRead[k]))) :
        Operands(StmtOf(LinesRead[k]))[j] \notin RegNames}

(* the ARE field an operand asks for *)
AreOf(t) ==
    IF ~IsDirect(t) THEN ARE_A_set
    ELSE IF SymbolNamed(t).is_extern THEN ARE_E_set ELSE ARE_R_set

(* C26: after both scans have ended without an error no word of the code
   image is the empty word the first scan appended: every word has exactly
   one bit of ARE set, A in the first word of an instruction and in the words
   of immediate and relative operands, R in the word of a direct operand
   that names a symbol of the file, E in the word of a direct operand that
   names an external symbol. *)
C26_AreBits ==
    Assembled =>
        /\ \A i \in 1..Len(code_img) :
               /\ FieldOf(code_img[i], ARE) \in {ARE_A_set, ARE_R_set, ARE_E_set}
               /\ code_img[i] % Pow2(WORD_BIT_LEN) # 0
        /\ \A k \in InstStmts :
               /\ FieldOf(code_img[FirstIndex(k)], ARE) = ARE_A_set
               /\ \A j \in WordOperands(k) :
                      FieldOf(code_img[OperandIndex(k, j)], ARE)
                          = AreOf(Operands(StmtOf(LinesRead[k]))[j])

(* '.extern X', 'jmp X' and 'A: jmp A': an assembled file with words of
   every ARE *)
C26_Witness ==
    /\ Assembled /\ Len(code_img) = 4
    /\ LinesRead = <<ln_extern_X, ln_jmp_X, ln.A_jmp_A>>
    /\ \E i, j, k \in 1..Len(code_img) :
          /\ FieldOf(code_img[i], ARE) = ARE_A_set
          /\ FieldOf(code_img[j], ARE) = ARE_R_set
          /\ FieldOf(code_img[k], ARE) = ARE_E_set

----------------------------------------------------------------------------
(* The second scan follows the first *)

(* number of the line the second scan is about to read *)
Scan2LineNo == Cardinality(LogOf(2)) + 1

(* neither scan has reported an error so far *)
NoErrorYet == err_cnt = 0 /\ status = "ALL_GOOD"

(* the second scan is on the word the first scan appended first for the line
   it is about to read (the end of the image for a line without words, and
   after the last line), and IC is the address of that word *)
C27_Cursor ==
    (pc \in {"scan2", "emit"} /\ NoErrorYet) =>
        /\ curr_word = IF Scan2LineNo <= NLines THEN Len(log[Scan2LineNo].code) + 1
                       ELSE Len(code_img) + 1
        /\ pc = "emit" => curr_word = Len(code_img) + 1
        /\ IC = INITIAL_LOAD_ADSS + curr_word - 1

(* the addressing method the first scan wrote in the first word for operand
   j of the statement of line k: the only operand of an instruction is its
   destination *)
MethodInWord(k, j) ==
    IF Len(Operands(StmtOf(LinesRead[k]))) = 2 /\ j = 1
    THEN FieldOf(code_img[FirstIndex(k)], SRC_ADSS)
    ELSE FieldOf(code_img[FirstIndex(k)], DEST_ADSS)

(* what the second scan does to the word of operand j of line k is what the
   method of the first scan asks for: nothing for an immediate operand, the
   word of the symbol for a direct operand, the distance with ARE = A for a
   relative operand *)
VisitedAs(k, j) ==
    LET t == Operands(StmtOf(LinesRead[k]))[j]
        i == OperandIndex(k, j)
    IN  CASE MethodInWord(k, j) = imediate_a -> IsImmediate(t) /\ code_img'[i] = code_img[i]
          [] MethodInWord(k, j) = direct_a ->
                 IsDirect(t) /\ code_img'[i] = SymbolNamed(t).rep_word
          [] MethodInWord(k, j) = relative_a ->
                 /\ IsRelative(t)
                 /\ FieldOf(code_img'[i], ARE) = ARE_A_set
                 /\ FieldOf(code_img'[i], NON_ARE) = S21(AdssOf(SymbolNamed(Tail(t))) - IC)
          [] OTHER -> FALSE

(* a step of the second scan on an instruction statement, without an error
   before it or in it: every operand visits its word, the other words stay,
   and the cursor and IC move by the words of the statement *)
C27_Step ==
    (ReadStep /\ pc = "scan2" /\ NoErrorYet /\ err_cnt' = 0 /\ status' = "ALL_GOOD"
        /\ Scan2LineNo \in InstStmts) =>
        /\ \A j \in WordOperands(Scan2LineNo) : VisitedAs(Scan2LineNo, j)
        /\ \A i \in 1..Len(code_img) :
               (\A j \in WordOperands(Scan2LineNo) : i # OperandIndex(Scan2LineNo, j))
                   => code_img'[i] = code_img[i]
        /\ Len(code_img') = Len(code_img)
        /\ curr_word' = curr_word + InstWords(LineRead)
        /\ IC' = IC + InstWords(LineRead)

(* C27: the second scan stays in step with the first: when the first scan
   reported no error, and until the second reports one, at the start of
   every instruction statement the cursor of the second scan is on the word
   the first scan appended as the first word of the statement and IC is 100
   plus the index of that word; every operand is taken with the addressing
   method of the first scan and visits the word appended for it; at the end
   of the file the cursor is past the last word and IC = 100 + the size of
   the code image. *)
C27_InStep == []C27_Cursor /\ [][C27_Step]_vars

(* 'prn #-1', 'lea A, r1' and 'A: stop': the second scan has ended past the
   five words without an error *)
C27_Witness ==
    /\ pc = "emit" /\ NoErrorYet
    /\ LinesRead = <<ln.prn_neg, ln.lea_A_r1, ln_A_stop>>
    /\ Len(code_img) = 5 /\ curr_word = 6 /\ IC = 105

----------------------------------------------------------------------------
(* What the second scan leaves alone *)

(* a symbol without its entry flag *)
NoEntryFlag(y) == [y EXCEPT !.is_entry = FALSE]

(* the symbols of a table, bucket by bucket, without their entry flags *)
WithoutEntryFlags(table) ==
    [h \in DOMAIN table |-> [i \in 1..Len(table[h]) |-> NoEntryFlag(table[h][i])]]

(* the indices of the words of the direct and relative operands of the file *)
SymbolWordIndices ==
    UNION {{OperandIndex(k, j) :
               j \in {m \in WordOperands(k) :
                          ~IsImmediate(Operands(StmtOf(LinesRead[k]))[m])}}
           : k \in InstStmts}

(* a step of the second scan: the size of the code image, the data image and
   the symbols but for their entry flags stay; a word that changes is the
   word of a direct or a relative operand; an entry flag is never taken back *)
C28_Scan2Step ==
    pc = "scan2" =>
        /\ Len(code_img') = Len(code_img)
        /\ data_img' = data_img
        /\ WithoutEntryFlags(symb_table') = WithoutEntryFlags(symb_table)
        /\ \A i \in 1..Len(code_img) :
               code_img'[i] # code_img[i] => err_cnt_1 = 0 /\ i \in SymbolWordIndices
        /\ \A k \in InstStmts :
               err_cnt_1 = 0 =>
                   /\ code_img'[FirstIndex(k)] = code_img[FirstIndex(k)]
                   /\ \A j \in WordOperands(k) :
                          IsImmediate(Operands(StmtOf(LinesRead[k]))[j])
                              => code_img'[OperandIndex(k, j)] = code_img[OperandIndex(k, j)]

(* C28: the second scan leaves unchanged the size of the code image, the
   first word of every instruction and the word of every immediate operand,
   the whole data image, the set of the symbols of the table and the
   replacement word, the external flag and the data flag of each of them; it
   writes only the words of direct and relative operands, the entry flags
   and the list of externals. *)
C28_Scan2Frame == [][C28_Scan2Step]_vars

(* 'A: .data 7', 'lea A, r1' and '.entry A': the second scan has written the
   word of A and its entry flag, and the first word of lea, the data image
   and the address of A are as the first scan left them *)
C28_Witness ==
    /\ pc = "emit" /\ NoErrorYet
    /\ LinesRead = <<ln_A_data, ln.lea_A_r1, ln_entry_A>>
    /\ SymbolNamed(<<"A">>).is_entry /\ SymbolNamed(<<"A">>).is_data
    /\ code_img[2] = SymbolNamed(<<"A">>).rep_word
    /\ code_img[1] = log[4].code[1]
    /\ Len(data_img) = 1

----------------------------------------------------------------------------
(* The first scan after an error *)

(* the symbol of a name in a table *)
SymbIn(table, n) == SymbAt(table, symb_lookup(table, n))

HasSymb(table, n) == symb_lookup(table, n).i # 0

(* the statement declares its label: an instruction or a .data or .string
   statement with a label *)
DeclaresLabel(st) == st.has_label /\ (IsInst(st) \/ IsDataStmt(st))

(* the symbol of n is new in the table of the next state, with address 0 *)
InstalledAtZero(n, is_extern, is_data) ==
    /\ HasSymb(symb_table', n)
    /\ AdssOf(SymbIn(symb_table', n)) = 0
    /\ SymbIn(symb_table', n).is_extern = is_extern
    /\ SymbIn(symb_table', n).is_data = is_data

(* a step of the first scan after it has reported an error: no word is
   appended to either image; a label that is new and legal is installed with
   address 0, a label the table holds is reported as a duplicate, and the
   new name of a .extern statement is installed *)
C29_Scan1Step ==
    (ReadStep /\ pc = "scan1" /\ err_cnt > 0) =>
        /\ code_img' = code_img
        /\ data_img' = data_img
        /\ log'[Len(log')].st # "STR_TOO_LONG" =>
            LET st == StmtOf(LineRead)
            IN  /\ DeclaresLabel(st) =>
                       IF HasSymb(symb_table, st.label)
                       THEN err_cnt' > err_cnt /\ symb_table' = symb_table
                       ELSE LegalName(st.label)
                               => InstalledAtZero(st.label, FALSE, IsDataStmt(st))
                /\ (IsGuide(st, <<"e","x","t","e","r","n">>) /\ Len(st.args) = 1
                        /\ LegalName(st.args[1]) /\ ~HasSymb(symb_table, st.args[1]))
                       => InstalledAtZero(st.args[1], TRUE, FALSE)

(* C29: once the first scan has reported an error on a line, no later line
   appends a word to the code image or to the data image, but the labels and
   the names of .extern statements of the later lines are still checked and
   installed, with 0 in the address field (before the shift of the data
   symbols) instead of the size of the image. *)
C29_AfterError == [][C29_Scan1Step]_vars

(* a line that is too long, then 'L: .data 5, -1' and '.extern X': L and X
   are in the table with address 0 and the data image is empty *)
C29_Witness ==
    /\ pc = "scan1" /\ Len(log) = 3 /\ err_cnt = 1
    /\ log[1].st = "STR_TOO_LONG" /\ log[2].line = ln_L_data /\ log[3].line = ln_extern_X
    /\ Defined(<<"L">>) /\ AdssOf(SymbolNamed(<<"L">>)) = 0 /\ SymbolNamed(<<"L">>).is_data
    /\ Defined(<<"X">>) /\ SymbolNamed(<<"X">>).is_extern
    /\ data_img = <<>> /\ code_img = <<>>

(* a line that is too long and two declarations of L: the second is
   reported as a duplicate *)
C29_Duplicate ==
    /\ pc = "scan1" /\ Len(log) = 3 /\ err_cnt = 2
    /\ log[1].st = "STR_TOO_LONG" /\ log[2].line = ln_L_stop /\ log[3].line = ln_L_data

----------------------------------------------------------------------------
(* The addresses of the .ob file *)

NotEmpty(l) == l # <<>>

(* the lines of the .ob file that follow the first and hold a word *)
WordLines == SelectSeq(Tail(ObLines), NotEmpty)

(* the address printed in line i of the words *)
PrintedAdss(i) == DecValue(TokensFrom(WordLines[i], 1)[1])

(* the two counts of the first line of the .ob file *)
HeaderCount(i) == DecValue(TokensFrom(ObLines[1], 1)[i])

(* the lines of the source file that declare their label *)
LabelLines == {k \in 1..NLines : DeclaresLabel(StmtOf(LinesRead[k]))}

(* the line of the .ob file with the first word the statement of line k
   appended: the first scan took the line with the images of record k *)
FirstWordLine(k) ==
    IF IsInst(StmtOf(LinesRead[k])) THEN Len(log[k].code) + 1
    ELSE Len(code_img) + log[k].data_size + 1

(* the address printed beside the first word of the statement that declares n *)
LabelAdss(n) ==
    PrintedAdss(FirstWordLine(CHOOSE k \in LabelLines : StmtOf(LinesRead[k]).label = n))

DeclaredLabels == {StmtOf(LinesRead[k]).label : k \in LabelLines}

(* the addresses of the lines of the words are consecutive from 100, the
   code first, and the first line holds the two numbers of lines *)
C30_Consecutive ==
    Emitted =>
        /\ Len(WordLines) = Len(code_img) + Len(data_img)
        /\ HeaderCount(1) = Len(code_img)
        /\ HeaderCount(2) = Len(data_img)
        /\ \A i \in 1..Len(WordLines) :
               /\ Len(TokensFrom(WordLines[i], 1)) = 2
               /\ PrintedAdss(i) = INITIAL_LOAD_ADSS + i - 1

(* the address of a label in the table, in the word of a direct operand and
   in the .ent file is the address printed beside the first word of its
   statement *)
C30_Labels ==
    Emitted =>
        /\ \A k \in LabelLines :
               /\ FirstWordLine(k) <= Len(WordLines)
               /\ AdssOf(SymbolNamed(StmtOf(LinesRead[k]).label))
                      = PrintedAdss(FirstWordLine(k))
        /\ \A k \in InstStmts : \A j \in WordOperands(k) :
               LET t == Operands(StmtOf(LinesRead[k]))[j]
               IN  (IsDirect(t) /\ t \in DeclaredLabels) =>
                       FieldOf(code_img[OperandIndex(k, j)], NON_ARE) = LabelAdss(t)
        /\ out.ent.exists =>
               \A i \in 1..Len(PairsOf(out.ent.text)) :
                   /\ PairsOf(out.ent.text)[i].name \in DeclaredLabels
                   /\ PairsOf(out.ent.text)[i].adss = LabelAdss(PairsOf(out.ent.text)[i].name)

(* C30: for every file that is assembled the addresses of the .ob file are
   consecutive (word i of the code at 100 + i, word j of the data at 100 +
   the size of the code + j, the counts of the first line equal to the
   numbers of lines of words), and the address of every label, in the words
   of the direct operands and in the .ent file, is the address printed in
   the .ob file beside the first word of the statement of the label. *)
C30_Addresses == C30_Consecutive /\ C30_Labels

(* 'lea A, r1', 'A: .data 7' and '.entry A': A is the word at 102, the
   address in the word of the operand and in the .ent file *)
C30_Witness ==
    /\ Emitted /\ out.ent.exists
    /\ LinesRead = <<ln.lea_A_r1, ln_A_data, ln_entry_A>>
    /\ Len(WordLines) = 3 /\ LabelAdss(<<"A">>) = 102
    /\ FieldOf(code_img[2], NON_ARE) = 102
    /\ PairsOf(out.ent.text)[1].adss = 102

====
